---------------------------- MODULE Spec2Model ----------------------------
(* Model of LSST::cRIO::ModbusBuffer (src/src/LSST/cRIO/ModbusBuffer.cpp,      *)
(* src/include/cRIO/ModbusBuffer.h) and of LSST::cRIO::ILC                      *)
(* (src/unnamed/part_001): the FIFO word buffer with its read cursor, the      *)
(* Modbus CRC-16, the ledger of commanded functions, the response dispatcher,  *)
(* the change cache and the five generic ILC response handlers.                *)
EXTENDS Integers, Sequences, FiniteSets, TLC

VARIABLES
    buffer,           \* ModbusBuffer::_buffer, the FIFO words
    index,            \* ModbusBuffer::_index, the read cursor
    crc,              \* ModbusBuffer::_crc._crcCounter
    commanded,        \* ModbusBuffer::_commanded, queue of <<address, function>>
    recordChanges,    \* ModbusBuffer::_recordChanges
    records,          \* ModbusBuffer::_records
    actions,          \* ModbusBuffer::_actions: function code -> handler
    errorActions,     \* ModbusBuffer::_errorActions: error code -> [func, action]
    cachedResponse,   \* ILC::_cachedResponse: address -> (function -> bytes)
    lastMode,         \* ILC::_lastMode: address -> mode
    alwaysTrigger,    \* ILC::_alwaysTrigger
    broadcastCounter, \* ILC::_broadcastCounter
    op,               \* the operation that ran last, with its arguments
    calls,            \* the virtual hooks and callbacks the last operation invoked
    thrown,           \* the exception that left the last operation (kind "none": it returned)
    ret,              \* what the last operation returned or read
    callers,          \* the invocations under way: position and locals
    hist              \* history of the ledger traffic since the last clear()

vars == <<buffer, index, crc, commanded, recordChanges, records, actions, errorActions,
          cachedResponse, lastMode, alwaysTrigger, broadcastCounter, op, calls, thrown,
          ret, callers, hist>>

-----------------------------------------------------------------------------
(* FIFO command words, namespace FIFO.                                        *)

WRITE == 4096
TX_FRAMEEND == 8410
TX_TIMESTAMP == 12288
DELAY == 16384
LONG_DELAY == 20480
TX_WAIT_RX == 24576
TX_WAIT_LONG_RX == 36864
RX_ENDFRAME == 40960
RX_TIMESTAMP == 45056
CMD_MASK == 61440
TX_MASK == 4608
RX_MASK == 37376

(* Bit operations on naturals, as the C++ operators ^, & and | compute them.  *)
(* XorBits is ^ bit by bit; Xor is the same function, taken four bits at a     *)
(* time from the table of XorBits on 0..15.                                    *)

RECURSIVE XorBits(_, _)
XorBits(a, b) ==
    IF a = 0 THEN b
    ELSE IF b = 0 THEN a
    ELSE (((a % 2) + (b % 2)) % 2) + 2 * XorBits(a \div 2, b \div 2)

RECURSIVE XorRow(_, _)
XorRow(a, n) == IF n = 0 THEN <<>> ELSE Append(XorRow(a, n - 1), XorBits(a, n - 1))

RECURSIVE XorRows(_)
XorRows(n) == IF n = 0 THEN <<>> ELSE Append(XorRows(n - 1), XorRow(n - 1, 16))

XorTable == XorRows(16)

RECURSIVE Xor(_, _)
Xor(a, b) ==
    IF a = 0 THEN b
    ELSE IF b = 0 THEN a
    ELSE XorTable[(a % 16) + 1][(b % 16) + 1] + 16 * Xor(a \div 16, b \div 16)

RECURSIVE And(_, _)
And(a, b) ==
    IF a = 0 \/ b = 0 THEN 0
    ELSE ((a % 2) * (b % 2)) + 2 * And(a \div 2, b \div 2)

RECURSIVE Or(_, _)
Or(a, b) ==
    IF a = 0 THEN b
    ELSE IF b = 0 THEN a
    ELSE (IF a % 2 = 1 \/ b % 2 = 1 THEN 1 ELSE 0) + 2 * Or(a \div 2, b \div 2)

U8(x) == x % 256
U16(x) == x % 65536

-----------------------------------------------------------------------------
(* ModbusBuffer::CRC                                                          *)

CRCInit == 65535
CRCPoly == 40961

RECURSIVE CRCBits(_, _)
CRCBits(c, j) ==
    IF j = 8 THEN c
    ELSE CRCBits(IF And(c, 1) = 1 THEN Xor(c \div 2, CRCPoly) ELSE c \div 2, j + 1)

CRCAdd(c, data) == CRCBits(Xor(c, data), 0)

-----------------------------------------------------------------------------
(* Exceptions. One record shape for all of them: kind is the C++ class, what *)
(* tells the std::runtime_error messages apart, and a field an exception does *)
(* not carry is -1 (pairs, the list checkCommandedEmpty reports, is <<>>).    *)

Exc(kind, what, a, b, c, d) ==
    [kind |-> kind, what |-> what, a |-> a, b |-> b, c |-> c, d |-> d, pairs |-> <<>>]
NoExc == Exc("none", "", -1, -1, -1, -1)

EndOfBuffer == Exc("EndOfBuffer", "", -1, -1, -1, -1)
CRCError(calculated, received) == Exc("CRCError", "", calculated, received, -1, -1)
UnmatchedFunction2(address, func) == Exc("UnmatchedFunction", "", address, func, -1, -1)
UnmatchedFunction4(address, func, expectedAddress, expectedFunction) ==
    Exc("UnmatchedFunction", "", address, func, expectedAddress, expectedFunction)
UnknownResponse(address, func) == Exc("UnknownResponse", "", address, func, -1, -1)
Exception(address, func, exception) == Exc("Exception", "", address, func, exception, -1)
RuntimeError(what, a, b) == Exc("runtime_error", what, a, b, -1, -1)
OutOfRange == Exc("out_of_range", "", -1, -1, -1, -1)

(* An operation runs on a record m of the instance's fields (named as the     *)
(* variables), the trace of the running call (calls, thrown, ret) and the     *)
(* behaviour of the subclass's virtual hooks during the call (hookThrows).    *)

Failed(m) == m.thrown.kind # "none"
Throw(m, e) == [m EXCEPT !.thrown = e]
Return(m, v) == [m EXCEPT !.ret = v]

-----------------------------------------------------------------------------
(* Host byte order. The host is little-endian: an integer of n bytes lies in  *)
(* memory least significant byte first, and ntohs, ntohl, htons, htonl,       *)
(* be64toh and htobe64 reverse its bytes; le32toh changes nothing. Integers   *)
(* of one and two bytes are numbers; a wider integer is the sequence of its   *)
(* bytes, most significant first.                                             *)

RECURSIVE Pow256(_)
Pow256(n) == IF n = 0 THEN 1 ELSE 256 * Pow256(n - 1)

MemoryOf(v, n) == [i \in 1..n |-> (v \div Pow256(i - 1)) % 256]

RECURSIVE ValueOf(_)
ValueOf(mem) == IF mem = <<>> THEN 0 ELSE Head(mem) + 256 * ValueOf(Tail(mem))

Reverse(s) == [i \in 1..Len(s) |-> s[Len(s) + 1 - i]]

WideMemoryOf(v) == Reverse(v)
WideValueOf(mem) == Reverse(mem)

ByteSwap(v, n) == ValueOf(Reverse(MemoryOf(v, n)))
WideByteSwap(v) == WideValueOf(Reverse(WideMemoryOf(v)))
ntohs(v) == ByteSwap(v, 2)
htons(v) == ByteSwap(v, 2)
ntohl(v) == WideByteSwap(v)
htonl(v) == WideByteSwap(v)
be64toh(v) == WideByteSwap(v)
htobe64(v) == WideByteSwap(v)
le32toh(v) == v

-----------------------------------------------------------------------------
(* ModbusBuffer: cursor, CRC and recording.                                   *)

(* A call worth tracing: the virtual hooks, the registered callbacks and the  *)
(* ledger and CRC checks of the dispatcher, in the order they were entered.   *)
Log(m, name, args) == [m EXCEPT !.calls = Append(@, [name |-> name, args |-> args])]

(* Variants of reset and clear that the properties of the two must tell from  *)
(* the code: a reset that keeps what was recorded, and a clear that empties   *)
(* the ledger whatever it is asked.                                           *)
resetKeepsRecords(m) == [m EXCEPT !.index = 0, !.crc = CRCInit, !.recordChanges = FALSE]

clearLedgerToo(m, onlyBuffers) ==
    [m EXCEPT !.buffer = <<>>, !.commanded = <<>>, !.index = 0, !.crc = CRCInit,
              !.recordChanges = FALSE, !.records = <<>>]

reset(m) ==
    [m EXCEPT !.index = 0, !.crc = CRCInit, !.recordChanges = FALSE, !.records = <<>>]

clear(m, onlyBuffers) ==
    reset([m EXCEPT !.buffer = <<>>,
                    !.commanded = IF onlyBuffers = FALSE THEN <<>> ELSE @])

endOfBuffer(m) == m.index >= Len(m.buffer)

(* _buffer[_index] with _index at or past the end reads outside the vector:  *)
(* undefined behaviour, modelled as any word out of GarbageWords.             *)
GarbageWords == {0, TX_FRAMEEND, RX_ENDFRAME}
CurrentWords(m) == IF m.index < Len(m.buffer) THEN {m.buffer[m.index + 1]} ELSE GarbageWords

processDataCRC(m, data) ==
    [m EXCEPT !.records = IF m.recordChanges THEN Append(@, data) ELSE @,
              !.crc = CRCAdd(@, data)]

(* ILC::readInstructionByte: returns the byte in ret.                         *)
readInstructionByte(m) ==
    IF endOfBuffer(m) THEN Throw(m, EndOfBuffer)
    ELSE [m EXCEPT !.index = @ + 1,
                   !.ret = U8(m.buffer[m.index + 1] \div 2)]

(* ILC::getByteInstruction: the word is returned in ret.                      *)
(* A variant of getByteInstruction that leaves the CRC as it is.              *)
getByteInstructionNoCRC(m, data) == Return(m, Or(TX_MASK, U16(data * 2)))

getByteInstruction(m, data) ==
    Return(processDataCRC(m, data), Or(TX_MASK, U16(data * 2)))

pushBuffer(m, word) == [m EXCEPT !.buffer = Append(@, word)]

(* ModbusBuffer::readBuffer: the bytes read so far are carried in mem and     *)
(* returned in ret, in memory order.                                          *)
RECURSIVE readBufferFrom(_, _, _)
readBufferFrom(m, len, mem) ==
    IF Len(mem) = len THEN Return(m, mem)
    ELSE LET r == readInstructionByte(m) IN
         IF Failed(r) THEN r
         ELSE readBufferFrom(processDataCRC(r, r.ret), len, Append(mem, r.ret))

(* getReadData: the loop variable i is a size_t that starts at _index - length *)
(* and is compared with _index, which every readInstructionByte call moves    *)
(* forward. A negative i stands for the wrapped difference 2^64 + i, which    *)
(* is above every cursor.                                                     *)
RECURSIVE getReadDataFrom(_, _, _)
getReadDataFrom(m, i, data) ==
    IF ~(0 <= i /\ i < m.index) THEN Return(m, data)
    ELSE LET r == readInstructionByte(m) IN
         IF Failed(r) THEN r
         ELSE getReadDataFrom(r, i + 1, Append(data, r.ret))

getReadData(m, length) ==
    IF Failed(m) THEN m ELSE getReadDataFrom(m, m.index - length, <<>>)

readBuffer(m, len) == IF Failed(m) THEN m ELSE readBufferFrom(m, len, <<>>)

(* The value an operation returns is v, unless it threw.                      *)
Converted(r, v) == IF Failed(r) THEN r ELSE Return(r, v)

FromNet16(mem) == ntohs(ValueOf(mem))
FromNet32(mem) == ntohl(WideValueOf(mem))
FromNet64(mem) == be64toh(WideValueOf(mem))
FromU48(mem) == be64toh(WideValueOf(<<0, 0>> \o mem))
AsString(mem) == mem

(* The bytes readBuffer left in ret, as the value the read returns.           *)
AsUint8(r) == Converted(r, ValueOf(r.ret))
AsUint16(r) == Converted(r, FromNet16(r.ret))
AsUint32(r) == Converted(r, FromNet32(r.ret))
AsUint64(r) == Converted(r, FromNet64(r.ret))
AsU48(r) == Converted(r, FromU48(r.ret))

(* An operation on an instance that has thrown is never reached: every        *)
(* operation of a handler hands such an instance on as it is.                 *)
(* A variant of read<uint16_t> that the round trip must tell from the code:   *)
(* the two bytes are returned as they lie in memory.                          *)
read_uint16HostOrder(m) == Converted(readBuffer(m, 2), ValueOf(readBuffer(m, 2).ret))

(* A variant of read<float> that takes the four bytes as they lie in memory.  *)
read_floatHostOrder(m) == Converted(readBuffer(m, 4), WideValueOf(readBuffer(m, 4).ret))

read_uint8(m) == AsUint8(readBuffer(m, 1))
read_uint16(m) == AsUint16(readBuffer(m, 2))
read_uint32(m) == AsUint32(readBuffer(m, 4))
read_uint64(m) == AsUint64(readBuffer(m, 8))
read_int32(m) == AsUint32(readBuffer(m, 4))

(* read<float>: the 32 bits of read<uint32_t> taken as a float; a float is    *)
(* the four bytes of its IEEE 754 single precision form, sign and exponent    *)
(* first.                                                                     *)
read_float(m) == read_uint32(m)
readU48(m) == AsU48(readBuffer(m, 6))
readString(m, length) == readBuffer(m, length)

(* readTimestamp: the eight bytes as a 64 bit value, least significant byte   *)
(* first; ret is the raw value that is handed to Timestamp::fromRaw.          *)
readTimestamp(m) == Converted(readBuffer(m, 8), WideValueOf(readBuffer(m, 8).ret))

(* ModbusBuffer::next, and a variant of it that does not look for the end of  *)
(* the buffer.                                                                *)
nextUnchecked(m) == [m EXCEPT !.index = @ + 1]

next(m) == IF endOfBuffer(m) THEN Throw(m, EndOfBuffer) ELSE [m EXCEPT !.index = @ + 1]

(* The local variables of a handler: NoLocals on entry, and Local keeps the   *)
(* value just read as the next one.                                           *)
NoLocals(m) == [m EXCEPT !.vals = <<>>]
Local(r) == IF Failed(r) THEN r ELSE [r EXCEPT !.vals = Append(@, r.ret)]

(* Variants of the CRC operations that the CRC properties must tell from the  *)
(* code: a check that accepts any two bytes, and a CRC written high byte      *)
(* first.                                                                     *)
checkCRCAcceptsAll(m) ==
    IF Failed(m) THEN m
    ELSE LET r == readBuffer([Log(m, "checkCRC", <<>>) EXCEPT !.recordChanges = FALSE], 2)
         IN  IF Failed(r) THEN r ELSE [r EXCEPT !.crc = CRCInit]

writeCRCHighFirst(m) ==
    LET c == m.crc
        hi == getByteInstruction(m, And(c \div 256, 255))
        r1 == [hi EXCEPT !.buffer = Append(@, hi.ret)]
        lo == getByteInstruction(r1, And(c, 255))
        r2 == [lo EXCEPT !.buffer = Append(@, lo.ret)]
    IN  [r2 EXCEPT !.crc = CRCInit]

CompareCRC(r, calCrc) ==
    IF Failed(r) THEN r
    ELSE IF le32toh(ValueOf(r.ret)) # calCrc
         THEN Throw(r, CRCError(calCrc, le32toh(ValueOf(r.ret))))
         ELSE [r EXCEPT !.crc = CRCInit]

(* A checkCRC that resets the register before it compares.                    *)
checkCRCAlwaysResets(m) ==
    IF Failed(m) THEN m
    ELSE [CompareCRC(readBuffer([Log(m, "checkCRC", <<>>) EXCEPT !.recordChanges = FALSE], 2),
                     m.crc) EXCEPT !.crc = CRCInit]

checkCRC(m) ==
    IF Failed(m) THEN m
    ELSE CompareCRC(readBuffer([Log(m, "checkCRC", <<>>) EXCEPT !.recordChanges = FALSE], 2),
                    m.crc)

(* ModbusBuffer::writeBuffer, over the bytes of data in memory order.         *)
RECURSIVE writeBuffer(_, _)
writeBuffer(m, data) ==
    IF data = <<>> THEN m
    ELSE LET r == getByteInstruction(m, Head(data)) IN
         writeBuffer(pushBuffer(r, r.ret), Tail(data))

(* A variant of write<uint32_t> that the byte order property must tell from   *)
(* the code: the bytes go out as they lie in memory.                          *)
write_uint32HostOrder(m, data) == writeBuffer(m, WideMemoryOf(data))

write_uint8(m, data) == writeBuffer(m, MemoryOf(data, 1))
write_uint16(m, data) == writeBuffer(m, MemoryOf(htons(data), 2))
write_uint32(m, data) == writeBuffer(m, WideMemoryOf(htonl(data)))
write_uint64(m, data) == writeBuffer(m, WideMemoryOf(htobe64(data)))
write_int32(m, data) == writeBuffer(m, WideMemoryOf(htonl(data)))

(* ModbusBuffer::writeI24: data is an int32_t, >> keeps its sign.             *)
writeI24(m, data) ==
    writeBuffer(m, <<U8(data \div 65536), U8(data \div 256), U8(data)>>)

writeCRC(m) ==
    LET c == m.crc
        lo == getByteInstruction(m, And(c, 255))
        r1 == pushBuffer(lo, lo.ret)
        hi == getByteInstruction(r1, And(c \div 256, 255))
        r2 == pushBuffer(hi, hi.ret)
    IN  [r2 EXCEPT !.crc = CRCInit]

(* ILC::writeEndOfFrame, ILC::writeWaitForRx, ILC::writeRxEndFrame, and a     *)
(* variant of writeEndOfFrame that takes the low byte of the word through the *)
(* CRC.                                                                       *)
writeEndOfFrameThroughCRC(m) ==
    pushBuffer(processDataCRC(m, And(TX_FRAMEEND, 255)), TX_FRAMEEND)

writeEndOfFrame(m) == pushBuffer(m, TX_FRAMEEND)

DurationWord(micros, short, long) ==
    IF micros > 4095 THEN Or(And(4095, (micros \div 1000) + 1), long)
    ELSE Or(micros, short)

writeWaitForRx(m, timeoutMicros) ==
    pushBuffer(m, DurationWord(timeoutMicros, TX_WAIT_RX, TX_WAIT_LONG_RX))

writeDelay(m, delayMicros) == pushBuffer(m, DurationWord(delayMicros, DELAY, LONG_DELAY))

writeRxEndFrame(m) == pushBuffer(m, RX_ENDFRAME)

(* ILC::readEndOfFrame, ILC::readWaitForRx and ModbusBuffer::readDelay read   *)
(* _buffer[_index] unchecked; w is the word they find (see CurrentWords). A   *)
(* variant of readEndOfFrame leaves the CRC register as it is.                *)
readEndOfFrameKeepsCRC(m, w) ==
    IF w # TX_FRAMEEND THEN Throw(m, RuntimeError("Expected end of frame", w, m.index))
    ELSE [m EXCEPT !.index = @ + 1]

readEndOfFrame(m, w) ==
    IF w # TX_FRAMEEND THEN Throw(m, RuntimeError("Expected end of frame", w, m.index))
    ELSE [m EXCEPT !.index = @ + 1, !.crc = CRCInit]

DurationRead(m, w, short, long, what) ==
    LET c == And(w, CMD_MASK) IN
    IF c = short THEN [m EXCEPT !.index = @ + 1, !.ret = And(4095, w)]
    ELSE IF c = long THEN [m EXCEPT !.index = @ + 1, !.ret = And(4095, w) * 1000]
    ELSE Throw(m, RuntimeError(what, w, m.index))

readWaitForRx(m, w) == DurationRead(m, w, TX_WAIT_RX, TX_WAIT_LONG_RX, "Expected wait for RX")
readDelay(m, w) == DurationRead(m, w, DELAY, LONG_DELAY, "Expected delay")

(* ModbusBuffer::peek and ModbusBuffer::endOfFrame read _buffer[_index]       *)
(* unchecked as well; w is the word they find.                                *)
peek(m, w) == Return(m, w)
endOfFrame(m, w) == Return(m, w = RX_ENDFRAME)

(* setBuffer copies length words from the caller's array; a variant of it     *)
(* puts them behind the words the buffer holds.                               *)
setBufferAppends(m, words, length) ==
    [m EXCEPT !.buffer = @ \o SubSeq(words, 1, length), !.index = 0, !.crc = CRCInit]

(* A setBuffer that resets the instance as reset() does.                      *)
setBufferResets(m, words, length) ==
    [m EXCEPT !.buffer = SubSeq(words, 1, length), !.index = 0, !.crc = CRCInit,
              !.recordChanges = FALSE, !.records = <<>>]

setBuffer(m, words, length) ==
    [m EXCEPT !.buffer = SubSeq(words, 1, length), !.index = 0, !.crc = CRCInit]

-----------------------------------------------------------------------------
(* The ledger of commanded functions.                                         *)

(* Variants of the ledger operations that the ledger properties must tell    *)
(* from the code: a range that stops one address short, and a check that      *)
(* takes the front entry whatever it is.                                      *)
pushCommandedBelow247(m, address, function) ==
    IF (address > 0 /\ address < 247) \/ address = 255
    THEN [m EXCEPT !.commanded = Append(@, <<address, function>>)]
    ELSE m

checkCommandedAnyFront(m, address, function) ==
    LET l == [m EXCEPT !.calls = Append(@, [name |-> "checkCommanded",
                                            args |-> <<address, function>>])] IN
    IF l.commanded = <<>> THEN Throw(l, UnmatchedFunction2(address, function))
    ELSE [l EXCEPT !.commanded = Tail(@)]

checkCommandedPassesEmpty(m, address, function) ==
    LET l == [m EXCEPT !.calls = Append(@, [name |-> "checkCommanded",
                                            args |-> <<address, function>>])] IN
    IF l.commanded = <<>> THEN l
    ELSE LET last == Head(l.commanded)
             popped == [l EXCEPT !.commanded = Tail(@)]
         IN  IF last[1] # address \/ last[2] # function
             THEN Throw(popped, UnmatchedFunction4(address, function, last[1], last[2]))
             ELSE popped

pushCommanded(m, address, function) ==
    IF (address > 0 /\ address < 248) \/ address = 255
    THEN [m EXCEPT !.commanded = Append(@, <<address, function>>)]
    ELSE m

checkCommandedKeepsUnmatched(m, address, function) ==
    LET l == Log(m, "checkCommanded", <<address, function>>) IN
    IF l.commanded = <<>> THEN Throw(l, UnmatchedFunction2(address, function))
    ELSE LET last == Head(l.commanded) IN
         IF last[1] # address \/ last[2] # function
         THEN Throw(l, UnmatchedFunction4(address, function, last[1], last[2]))
         ELSE [l EXCEPT !.commanded = Tail(@)]

checkCommanded(m, address, function) ==
    LET l == Log(m, "checkCommanded", <<address, function>>) IN
    IF l.commanded = <<>> THEN Throw(l, UnmatchedFunction2(address, function))
    ELSE LET last == Head(l.commanded)
             popped == [l EXCEPT !.commanded = Tail(@)]
         IN  IF last[1] # address \/ last[2] # function
             THEN Throw(popped, UnmatchedFunction4(address, function, last[1], last[2]))
             ELSE popped

(* A variant of checkCommandedEmpty that the properties of the check must     *)
(* tell from the code: the error names the front entry only.                  *)
checkCommandedEmptyListsFront(m) ==
    IF m.commanded = <<>> THEN m
    ELSE Throw([m EXCEPT !.commanded = <<>>],
               [RuntimeError("Responses weren't received", -1, -1)
                    EXCEPT !.pairs = <<Head(m.commanded)>>])

(* A checkCommandedEmpty that lists the ledger and leaves the entries in it.  *)
checkCommandedEmptyKeepsLedger(m) ==
    IF m.commanded = <<>> THEN m
    ELSE Throw(m, [RuntimeError("Responses weren't received", -1, -1)
                       EXCEPT !.pairs = m.commanded])

checkCommandedEmpty(m) ==
    IF m.commanded = <<>> THEN m
    ELSE Throw([m EXCEPT !.commanded = <<>>],
               [RuntimeError("Responses weren't received", -1, -1)
                    EXCEPT !.pairs = m.commanded])

(* The arguments of the callFunction template: <<type, value>> pairs, written *)
(* by write<type> in order.                                                   *)
writeTyped(m, arg) ==
    IF arg[1] = "uint8" THEN write_uint8(m, arg[2])
    ELSE IF arg[1] = "uint16" THEN write_uint16(m, arg[2])
    ELSE IF arg[1] = "uint32" THEN write_uint32(m, arg[2])
    ELSE IF arg[1] = "int32" THEN write_int32(m, arg[2])
    ELSE write_uint64(m, arg[2])

(* read<type>                                                                 *)
readTyped(m, type) ==
    IF type = "uint8" THEN read_uint8(m)
    ELSE IF type = "uint16" THEN read_uint16(m)
    ELSE IF type = "uint32" THEN read_uint32(m)
    ELSE IF type = "int32" THEN read_int32(m)
    ELSE read_uint64(m)

RECURSIVE functionArguments(_, _)
functionArguments(m, params) ==
    IF params = <<>> THEN m
    ELSE LET w == writeTyped(m, Head(params)) IN
         IF Failed(w) THEN w ELSE functionArguments(w, Tail(params))

callFunctionWaitFirst(m, address, function, timeout, params) ==
    LET w1 == write_uint8(m, address)
        w2 == write_uint8(w1, function)
        w3 == functionArguments(w2, params)
        w4 == writeCRC(w3)
        w5 == writeWaitForRx(w4, timeout)
        w6 == writeEndOfFrame(w5)
    IN  pushCommanded(w6, address, function)

callFunction(m, address, function, timeout, params) ==
    LET w1 == write_uint8(m, address)
        w2 == write_uint8(w1, function)
        w3 == functionArguments(w2, params)
        w4 == writeCRC(w3)
        w5 == writeEndOfFrame(w4)
        w6 == writeWaitForRx(w5, timeout)
    IN  pushCommanded(w6, address, function)

RECURSIVE writeBytes(_, _)
writeBytes(m, data) ==
    IF data = <<>> THEN m
    ELSE LET w == write_uint8(m, Head(data)) IN
         IF Failed(w) THEN w ELSE writeBytes(w, Tail(data))

broadcastFunction(m, address, function, counter, delay, data) ==
    LET w1 == write_uint8(m, address)
        w2 == write_uint8(w1, function)
        w3 == write_uint8(w2, counter)
        w4 == writeBytes(w3, data)
        w5 == writeCRC(w4)
        w6 == writeEndOfFrame(w5)
    IN  writeDelay(w6, delay)

(* callFunction without arguments, one appended word (or the push into the    *)
(* ledger) at a time: position pc of the caller c, whose local crc is what    *)
(* writeCRC got from getCalcCrc(). The seventh step is the last.              *)
callFunctionStep(m, c) ==
    IF c.pc = 1 THEN write_uint8(m, c.address)
    ELSE IF c.pc = 2 THEN write_uint8(m, c.function)
    ELSE IF c.pc = 3 THEN pushBuffer(getByteInstruction(m, And(m.crc, 255)),
                                     getByteInstruction(m, And(m.crc, 255)).ret)
    ELSE IF c.pc = 4 THEN [pushBuffer(getByteInstruction(m, And(c.crc \div 256, 255)),
                                      getByteInstruction(m, And(c.crc \div 256, 255)).ret)
                              EXCEPT !.crc = CRCInit]
    ELSE IF c.pc = 5 THEN writeEndOfFrame(m)
    ELSE IF c.pc = 6 THEN writeWaitForRx(m, c.timeout)
    ELSE pushCommanded(m, c.address, c.function)

-----------------------------------------------------------------------------
(* ILC: requests.                                                             *)

(* ILCMode, and the mode last reported by a unit; getLastMode throws          *)
(* std::out_of_range for a unit that has reported none.                       *)
Standby == 0
Disabled == 1
Enabled == 2
FirmwareUpdate == 3
Fault == 4

getLastMode(m, address) ==
    IF address \in DOMAIN m.lastMode THEN Return(m, m.lastMode[address])
    ELSE Throw(m, OutOfRange)

(* A variant of nextBroadcastCounter that the counter property must tell from *)
(* the code: the counter runs up to 16.                                       *)
nextBroadcastCounterTo16(m) ==
    LET c == IF m.broadcastCounter + 1 > 16 THEN 0 ELSE m.broadcastCounter + 1
    IN  Return([m EXCEPT !.broadcastCounter = c], c)

(* ILC::nextBroadcastCounter                                                  *)
nextBroadcastCounter(m) ==
    LET c == IF m.broadcastCounter + 1 > 15 THEN 0 ELSE m.broadcastCounter + 1
    IN  Return([m EXCEPT !.broadcastCounter = c], c)

(* A variant of changeILCMode that the timeout property must tell from the    *)
(* code: only the way into the firmware update gets the long timeout.         *)
changeILCModeOneWay(m, address, mode) ==
    LET last == getLastMode(m, address)
        timeout == IF ~Failed(last) /\ last.ret = Standby /\ mode = FirmwareUpdate
                   THEN 100000 ELSE 335
    IN  callFunction(m, address, 65, timeout, <<<<"uint16", mode>>>>)

(* ILC::changeILCMode: the out_of_range of getLastMode is caught and leaves   *)
(* the timeout at 335.                                                        *)
changeILCMode(m, address, mode) ==
    LET last == getLastMode(m, address)
        timeout == IF /\ ~Failed(last)
                      /\ \/ (last.ret = Standby /\ mode = FirmwareUpdate)
                         \/ (last.ret = FirmwareUpdate /\ mode = Standby)
                   THEN 100000 ELSE 335
    IN  callFunction(m, address, 65, timeout, <<<<"uint16", mode>>>>)

-----------------------------------------------------------------------------
(* The change cache.                                                          *)

(* ModbusBuffer::checkRecording: ret is <<result, cached afterwards>>. A      *)
(* variant of it swaps without clearing the recorded bytes afterwards.        *)
checkRecordingSwapOnly(m, cached) ==
    LET off == [m EXCEPT !.recordChanges = FALSE] IN
    IF cached = off.records
    THEN [off EXCEPT !.records = <<>>, !.ret = <<TRUE, cached>>]
    ELSE [off EXCEPT !.records = cached, !.ret = <<FALSE, off.records>>]

checkRecording(m, cached) ==
    LET off == [m EXCEPT !.recordChanges = FALSE] IN
    IF cached = off.records
    THEN [off EXCEPT !.records = <<>>, !.ret = <<TRUE, cached>>]
    ELSE [off EXCEPT !.records = <<>>, !.ret = <<FALSE, off.records>>]

EmptyMap == [k \in {} |-> <<>>]
Lookup(map, key, default) == IF key \in DOMAIN map THEN map[key] ELSE default

(* The setter of _alwaysTrigger, which forces every response to count as a    *)
(* change.                                                                    *)
setAlwaysTrigger(m, newAlwaysTrigger) == [m EXCEPT !.alwaysTrigger = newAlwaysTrigger]

(* ILC::responseMatchCached: a missing address or function gets an empty     *)
(* vector first, and the vector for (address, func) is handed to              *)
(* checkRecording by reference.                                               *)
CacheFor(m, address) == Lookup(m.cachedResponse, address, EmptyMap)

Recorded(r, address, func, always) ==
    [r EXCEPT !.cachedResponse = (address :> ((func :> r.ret[2]) @@ CacheFor(r, address))) @@ @,
              !.ret = r.ret[1] /\ ~always]

responseMatchCached(m, address, func) ==
    IF Failed(m) THEN m
    ELSE Recorded(checkRecording(m, Lookup(CacheFor(m, address), func, <<>>)),
                  address, func, m.alwaysTrigger)

-----------------------------------------------------------------------------
(* ILC: the virtual process* hooks, and the five handlers the constructor     *)
(* registers. A hook is the subclass's code: it is traced, and it returns or  *)
(* throws as hookThrows says.                                                 *)

ProcessHooks == {"processMezzaninePressure",
                 "processServerID", "processServerStatus", "processChangeILCMode",
                 "processSetTempILCAddress", "processResetServer"}

Hook(m, name, args) ==
    LET l == Log(m, name, args) IN
    IF m.hookThrows = "out_of_range" THEN Throw(l, OutOfRange)
    ELSE IF m.hookThrows = "runtime_error" THEN Throw(l, RuntimeError("hook", -1, -1))
    ELSE l

recordChangesOn(m) == [m EXCEPT !.recordChanges = TRUE]

(* ILC::ILC, function 17: the length byte, the fields after it, and the hook. *)
ServerIDLength(r) ==
    IF Failed(r) THEN r
    ELSE IF r.ret < 12
         THEN Throw(r, RuntimeError("invalid ILC function 17 response length", r.ret, -1))
         ELSE r

FirmwareNameFrom11(r) == IF Failed(r) THEN r ELSE readString(r, r.vals[1] - 11)

FirmwareName(r) == IF Failed(r) THEN r ELSE readString(r, r.vals[1] - 12)

(* Each field is read before the next: the nine reads are evaluated one by    *)
(* one.                                                                       *)
ServerIDFields(r) ==
    LET uniqueID == Local(readU48(r)) IN
    IF Failed(uniqueID) THEN uniqueID ELSE
    LET ilcAppType == Local(read_uint8(uniqueID)) IN
    IF Failed(ilcAppType) THEN ilcAppType ELSE
    LET networkNodeType == Local(read_uint8(ilcAppType)) IN
    IF Failed(networkNodeType) THEN networkNodeType ELSE
    LET ilcSelectedOptions == Local(read_uint8(networkNodeType)) IN
    IF Failed(ilcSelectedOptions) THEN ilcSelectedOptions ELSE
    LET networkNodeOptions == Local(read_uint8(ilcSelectedOptions)) IN
    IF Failed(networkNodeOptions) THEN networkNodeOptions ELSE
    LET majorRev == Local(read_uint8(networkNodeOptions)) IN
    IF Failed(majorRev) THEN majorRev ELSE
    LET minorRev == Local(read_uint8(majorRev)) IN
    IF Failed(minorRev) THEN minorRev ELSE Local(FirmwareName(minorRev))

processServerID(r, address) ==
    IF Failed(r) THEN r
    ELSE IF r.ret = FALSE
         THEN Hook(r, "processServerID", <<address>> \o Tail(r.vals))
         ELSE r

Handler17(m, address) ==
    processServerID(responseMatchCached(
                 checkCRC(ServerIDFields(ServerIDLength(
                     Local(read_uint8(recordChangesOn(NoLocals(m))))))),
                 address, 17),
             address)

processServerStatus(r, address) ==
    IF Failed(r) THEN r
    ELSE IF r.ret = FALSE
         THEN Hook([r EXCEPT !.lastMode = (address :> r.vals[1]) @@ @],
                   "processServerStatus", <<address>> \o r.vals)
         ELSE r

Handler18(m, address) ==
    processServerStatus(responseMatchCached(
                     checkCRC(Local(read_uint16(Local(read_uint16(
                         Local(read_uint8(recordChangesOn(NoLocals(m))))))))),
                     address, 18),
                 address)

processChangeILCMode(r, address) ==
    IF Failed(r) THEN r
    ELSE IF r.ret = FALSE
         THEN Hook([r EXCEPT !.lastMode = (address :> U8(r.vals[1])) @@ @],
                   "processChangeILCMode", <<address>> \o r.vals)
         ELSE r

Handler65(m, address) ==
    processChangeILCMode(responseMatchCached(
                      checkCRC(Local(read_uint16(recordChangesOn(NoLocals(m))))),
                      address, 65),
                  address)

processSetTempILCAddress(r, address) ==
    IF Failed(r) THEN r ELSE Hook(r, "processSetTempILCAddress", <<address>> \o r.vals)

Handler72(m, address) ==
    processSetTempILCAddress(checkCRC(Local(read_uint8(NoLocals(m)))), address)

processResetServer(r, address) ==
    IF Failed(r) THEN r ELSE Hook(r, "processResetServer", <<address>>)

(* A variant of the handler that rewinds the cursor before it returns.        *)
Handler107Rewinds(m, address) ==
    [processResetServer(checkCRC(m), address) EXCEPT !.index = 0]

Handler107(m, address) == processResetServer(checkCRC(m), address)

(* ElectromechanicalPneumaticILC, function 119: four floats and the CRC. The   *)
(* test of the pressure data writes 3.141592, 1.3456, -127.657 and -3.1468    *)
(* into the response and requires -3.1468 as secondaryPush and -127.657 as    *)
(* secondaryPull: the third float is the secondary pull.                      *)
processMezzaninePressure(r, address) ==
    IF Failed(r) THEN r
    ELSE Hook(r, "processMezzaninePressure",
              <<address, r.vals[1], r.vals[2], r.vals[4], r.vals[3]>>)

Handler119(m, address) ==
    processMezzaninePressure(
        checkCRC(Local(read_float(Local(read_float(
                 Local(read_float(Local(read_float(NoLocals(m))))))))))
        , address)

(* The std::function stored under a function code, by name.                  *)
Invoke(handler, m, address) ==
    IF handler = "ILC17" THEN Handler17(m, address)
    ELSE IF handler = "ILC18" THEN Handler18(m, address)
    ELSE IF handler = "ILC65" THEN Handler65(m, address)
    ELSE IF handler = "ILC72" THEN Handler72(m, address)
    ELSE IF handler = "EP119" THEN Handler119(m, address)
    ELSE Handler107(m, address)

(* The registrations of ILC::ILC: errorAction is left at its default nullptr. *)
ILCActions ==
    (17 :> "ILC17") @@ (18 :> "ILC18") @@ (65 :> "ILC65") @@ (72 :> "ILC72")
        @@ (107 :> "ILC107")
ILCErrorActions ==
    (145 :> <<17, "nullptr">>) @@ (146 :> <<18, "nullptr">>) @@ (193 :> <<65, "nullptr">>)
        @@ (200 :> <<72, "nullptr">>) @@ (235 :> <<107, "nullptr">>)

addResponse(m, func, action, errorResponse, errorAction) ==
    [m EXCEPT !.actions = (func :> action) @@ @,
              !.errorActions = (errorResponse :> <<func, errorAction>>) @@ @]

-----------------------------------------------------------------------------
(* ModbusBuffer::processResponse                                              *)

(* A variant of the error response path that the error properties must tell  *)
(* from the code: the error action comes before the CRC is checked.           *)
ErrorResponseActsFirst(m, address, func) ==
    IF func \notin DOMAIN m.errorActions THEN Throw(m, OutOfRange)
    ELSE LET r1 == Local(read_uint8(NoLocals(m))) IN
         IF Failed(r1) THEN r1
         ELSE IF r1.errorActions[func][2] # "nullptr"
              THEN checkCRC(Hook(r1, "errorAction", <<address, r1.vals[1]>>))
              ELSE Throw(r1, Exception(address, func, r1.vals[1]))

(* errorAction.second, or the Exception thrown in its absence.                *)
ErrorAction(r, address, func) ==
    IF Failed(r) THEN r
    ELSE IF r.errorActions[func][2] # "nullptr"
         THEN Hook(r, "errorAction", <<address, r.vals[1]>>)
         ELSE Throw(r, Exception(address, func, r.vals[1]))

(* The catch (std::out_of_range&) block: the error response path.             *)
ErrorResponse(m, address, func) ==
    IF func \notin DOMAIN m.errorActions THEN Throw(m, OutOfRange)
    ELSE ErrorAction(checkCRC(Local(read_uint8(NoLocals(m)))), address, func)

(* The ledger check for a response or an error response.                      *)
CheckLedger(m, address, func) ==
    IF func \notin DOMAIN m.errorActions
    THEN checkCommanded(m, address, func)
    ELSE checkCommanded(m, address, m.errorActions[func][1])

(* _actions.at(func)(address)                                                 *)
CallAction(r, address, func) ==
    IF Failed(r) THEN r
    ELSE IF func \in DOMAIN r.actions
         THEN Invoke(r.actions[func], r, address)
         ELSE Throw(r, OutOfRange)

(* The two catch clauses.                                                     *)
CatchInner(r, address, func) ==
    IF r.thrown.kind = "out_of_range"
    THEN Throw(r, UnknownResponse(address, func))
    ELSE r

CatchOuter(r, address, func) ==
    IF r.thrown.kind # "out_of_range" THEN r
    ELSE CatchInner(ErrorResponse([r EXCEPT !.thrown = NoExc], address, func),
                    address, func)

Respond(r) ==
    IF Failed(r) THEN r
    ELSE CatchOuter(CallAction(CheckLedger(r, r.vals[1], r.vals[2]),
                               r.vals[1], r.vals[2]),
                    r.vals[1], r.vals[2])

(* One turn of the while loop: a header and its dispatch.                     *)
Dispatch(m) == Respond(Local(read_uint8(Local(read_uint8(NoLocals(m))))))

RECURSIVE DispatchLoop(_)
Continue(r) == IF Failed(r) THEN r ELSE DispatchLoop(r)

DispatchLoop(m) == IF endOfBuffer(m) THEN m ELSE Continue(Dispatch(m))

(* The virtual preProcess and postProcess: traced; preProcess throws when     *)
(* hookThrows names it. A variant of postProcess runs after an error too.     *)
preProcess(m) ==
    IF m.hookThrows = "preProcess"
    THEN Throw(Log(m, "preProcess", <<>>), RuntimeError("hook", -1, -1))
    ELSE Log(m, "preProcess", <<>>)

postProcessAlways(r) == Log(r, "postProcess", <<>>)

postProcess(r) == IF Failed(r) THEN r ELSE Log(r, "postProcess", <<>>)

Responses(r, response) ==
    IF Failed(r) THEN r ELSE DispatchLoop(setBuffer(r, response, Len(response)))

processResponse(m, response) ==
    postProcess(Responses(preProcess(m), response))

-----------------------------------------------------------------------------
(* Responses. A response frame is described by its address, function code,    *)
(* payload bytes, whether its CRC bytes are the right ones, and how many of    *)
(* its trailing words never arrived. Its words are produced the way the tests  *)
(* produce them: written into a second, fresh buffer, followed by writeCRC.    *)

Blank ==
    [buffer |-> <<>>, index |-> 0, crc |-> CRCInit, commanded |-> <<>>,
     recordChanges |-> FALSE, records |-> <<>>, actions |-> ILCActions,
     errorActions |-> ILCErrorActions, cachedResponse |-> EmptyMap, lastMode |-> EmptyMap,
     alwaysTrigger |-> FALSE, broadcastCounter |-> 0,
     calls |-> <<>>, thrown |-> NoExc, ret |-> <<>>, vals |-> <<>>,
     hookThrows |-> "none"]

Frame(address, func, payload, crcOk, cut) ==
    [address |-> address, func |-> func, payload |-> payload, crcOk |-> crcOk, cut |-> cut]

FrameWords(f) ==
    LET w == writeBytes(Blank, <<f.address, f.func>> \o f.payload)
        good == writeCRC(w).buffer
        n == Len(good)
        all == IF f.crcOk THEN good
               ELSE [good EXCEPT ![n - 1] = Or(TX_MASK, 2 * Xor(And(w.crc, 255), 1))]
    IN  SubSeq(all, 1, n - f.cut)

RECURSIVE ResponseWords(_)
ResponseWords(frames) ==
    IF frames = <<>> THEN <<>> ELSE FrameWords(Head(frames)) \o ResponseWords(Tail(frames))

-----------------------------------------------------------------------------
(* The state machine: one action per public operation of an ILC instance.     *)

(* hist: the ledger traffic since the ledger was last emptied. issued are  *)
(* the requests of callFunction and pushCommanded to unicast addresses, seen  *)
(* the <<address, function>> pairs the dispatcher took to the ledger, up to   *)
(* the first one it rejected with UnmatchedFunction: that one is number       *)
(* unmatchedAt, issuedThen requests had been issued by then, and expected is   *)
(* the pair the exception reported (<<>> if it reported none). on = FALSE      *)
(* switches the history off. waiting are the requests still waiting for a     *)
(* response header: a request joins at the back, and every header that the    *)
(* dispatcher takes to the ledger answers the one at the front; sinceClear is *)
(* the same, counted from the last clear() rather than from the last time the *)
(* ledger was emptied; unanswered, kept when front is set, are the requests   *)
(* issued since the ledger was last emptied whose response (a header with the *)
(* request's address and function) has not arrived. returned are the values   *)
(* nextBroadcastCounter has returned since construction. written are the      *)
(* <<type, value>> pairs that write<type> has put into the buffer since it    *)
(* was cleared, and before is the operation that came before the last         *)
(* read<type>. valid, kept when snapshots is set, is described further down.  *)
NoHist == [on |-> TRUE, overlapped |-> FALSE,
           issued |-> <<>>, seen |-> <<>>, unmatchedAt |-> 0,
           issuedThen |-> 0, expected |-> <<>>, waiting |-> <<>>, sinceClear |-> <<>>,
           front |-> FALSE, unanswered |-> <<>>, snapshots |-> FALSE, valid |-> EmptyMap,
           returned |-> <<>>, written |-> <<>>, before |-> ""]
HistOff == [NoHist EXCEPT !.on = FALSE]
Restart == [(IF hist.on THEN NoHist ELSE HistOff) EXCEPT !.returned = hist.returned,
                                                         !.front = hist.front,
                                                         !.snapshots = hist.snapshots,
                                                         !.valid = hist.valid]
Emptied == [Restart EXCEPT !.sinceClear = hist.sinceClear]

Constructed ==
    /\ buffer = <<>>
    /\ index = 0
    /\ crc = CRCInit
    /\ commanded = <<>>
    /\ recordChanges = FALSE
    /\ records = <<>>
    /\ actions = ILCActions
    /\ errorActions = ILCErrorActions
    /\ cachedResponse = EmptyMap
    /\ lastMode = EmptyMap
    /\ alwaysTrigger = FALSE
    /\ broadcastCounter = 0
    /\ op = [name |-> "ILC", args |-> <<>>]
    /\ calls = <<>>
    /\ thrown = NoExc
    /\ ret = <<>>
    /\ callers = EmptyMap

Init == Constructed /\ hist = NoHist

(* The instance as an operation finds it; h is what the hooks will do.        *)
Self(h) ==
    [buffer |-> buffer, index |-> index, crc |-> crc, commanded |-> commanded,
     recordChanges |-> recordChanges, records |-> records, actions |-> actions,
     errorActions |-> errorActions, cachedResponse |-> cachedResponse,
     lastMode |-> lastMode, alwaysTrigger |-> alwaysTrigger,
     broadcastCounter |-> broadcastCounter,
     calls |-> <<>>, thrown |-> NoExc, ret |-> <<>>, vals |-> <<>>, hookThrows |-> h]

(* The instance as operation name(args) leaves it, returning result (a        *)
(* one-element sequence, or <<>> for void or an exception).                   *)
Store(m, name, args, result) ==
    /\ buffer' = m.buffer
    /\ index' = m.index
    /\ crc' = m.crc
    /\ commanded' = m.commanded
    /\ recordChanges' = m.recordChanges
    /\ records' = m.records
    /\ actions' = m.actions
    /\ errorActions' = m.errorActions
    /\ cachedResponse' = m.cachedResponse
    /\ lastMode' = m.lastMode
    /\ alwaysTrigger' = m.alwaysTrigger
    /\ broadcastCounter' = m.broadcastCounter
    /\ op' = [name |-> name, args |-> args]
    /\ calls' = m.calls
    /\ thrown' = m.thrown
    /\ ret' = IF Failed(m) THEN <<>> ELSE result

(* An operation that runs as a whole: no invocation under way is touched.     *)
Commit(m, name, args, result) == Store(m, name, args, result) /\ callers' = callers

(* Unicast addresses, as the data model of the ledger defines them.           *)
IsUnicast(address) == address \in 1..247 \/ address = 255

Issue(address, function) ==
    IF hist.on /\ IsUnicast(address)
    THEN [hist EXCEPT !.issued = Append(@, <<address, function>>),
                      !.waiting = Append(@, <<address, function>>),
                      !.sinceClear = Append(@, <<address, function>>),
                      !.unanswered = IF hist.front THEN Append(@, <<address, function>>)
                                      ELSE @]
    ELSE hist

(* The pairs a processResponse call took to the ledger, from its trace.       *)
RECURSIVE Checked(_)
Checked(trace) ==
    IF trace = <<>> THEN <<>>
    ELSE IF Head(trace).name = "checkCommanded"
         THEN <<Head(trace).args>> \o Checked(Tail(trace))
         ELSE Checked(Tail(trace))

(* s without its first k elements (without all of them, if it has fewer).     *)
Drop(s, k) == IF k >= Len(s) THEN <<>> ELSE SubSeq(s, k + 1, Len(s))

(* s without the first of its elements that equals pair, and s without the   *)
(* requests whose responses are the headers of pairs, oldest first.           *)
RECURSIVE Without(_, _)
Without(s, pair) ==
    IF s = <<>> THEN <<>>
    ELSE IF Head(s) = pair THEN Tail(s)
    ELSE <<Head(s)>> \o Without(Tail(s), pair)

RECURSIVE Received(_, _)
Received(s, pairs) ==
    IF pairs = <<>> THEN s ELSE Received(Without(s, Head(pairs)), Tail(pairs))

Answered(h, m) ==
    [h EXCEPT !.waiting = Drop(@, Len(Checked(m.calls))),
              !.sinceClear = Drop(@, Len(Checked(m.calls))),
              !.unanswered = IF h.front THEN Received(@, Checked(m.calls)) ELSE @]

Observe(m) ==
    IF ~hist.on THEN hist
    ELSE IF hist.unmatchedAt # 0 THEN Answered(hist, m)
    ELSE LET seen == hist.seen \o Checked(m.calls) IN
         IF m.thrown.kind = "UnmatchedFunction"
         THEN Answered([hist EXCEPT !.seen = seen, !.unmatchedAt = Len(seen),
                                    !.issuedThen = Len(hist.issued),
                                    !.expected = IF m.thrown.c = -1 THEN <<>>
                                                 ELSE <<m.thrown.c, m.thrown.d>>], m)
         ELSE Answered([hist EXCEPT !.seen = seen], m)

(* Bounds: the words a buffer may hold before a request is written into it,   *)
(* the requests the ledger may hold, the recorded bytes left behind, and the  *)
(* requests that may wait for a response between two calls of clear(), and    *)
(* the calls of nextBroadcastCounter, and the durations written into a        *)
(* buffer.                                                                    *)
MaxWords == 16
MaxCommanded == 2
MaxRecords == 3
MaxSinceClear == 2
MaxCalls == 34
MaxDurations == 2

RECURSIVE ArgBytes(_)
ArgBytes(params) ==
    IF params = <<>> THEN 0
    ELSE (IF Head(params)[1] = "uint8" THEN 1
          ELSE IF Head(params)[1] = "uint16" THEN 2
          ELSE IF Head(params)[1] = "uint32" THEN 4 ELSE 8) + ArgBytes(Tail(params))

CallFunction(address, function, timeout, params) ==
    /\ Len(buffer) < MaxWords
    /\ Len(commanded) < MaxCommanded
    /\ Len(hist.issued) < MaxCommanded
    /\ Len(hist.sinceClear) < MaxSinceClear
    /\ \E m \in {callFunction(Self("none"), address, function, timeout, params)} :
           Commit(m, "callFunction", <<address, function, timeout, params>>, <<>>)
    /\ hist' = Issue(address, function)

(* A caller enters callFunction, and a caller under way takes its next step.  *)
(* The calls overlap when a caller steps while another one has appended a     *)
(* word and has not returned.                                                 *)
EnterCallFunction(t, address, function, timeout) ==
    /\ t \notin DOMAIN callers
    /\ Len(commanded) + Cardinality(DOMAIN callers) < MaxCommanded
    /\ callers' = (t :> [pc |-> 1, crc |-> 0, address |-> address, function |-> function,
                         timeout |-> timeout]) @@ callers
    /\ UNCHANGED <<buffer, index, crc, commanded, recordChanges, records, actions,
                   errorActions, cachedResponse, lastMode, alwaysTrigger, broadcastCounter,
                   op, calls, thrown, ret, hist>>

StepCallFunction(t) ==
    /\ t \in DOMAIN callers
    /\ Store(callFunctionStep(Self("none"), callers[t]), "callFunction",
             <<callers[t].address, callers[t].function, callers[t].timeout, <<>>>>, <<>>)
    /\ callers' = IF callers[t].pc = 7
                  THEN [u \in DOMAIN callers \ {t} |-> callers[u]]
                  ELSE [callers EXCEPT ![t].pc = @ + 1,
                                       ![t].crc = IF callers[t].pc = 3 THEN crc ELSE @]
    /\ hist' = [hist EXCEPT !.overlapped =
                   @ \/ \E u \in DOMAIN callers \ {t} : callers[u].pc > 1]

(* processResponse turn by turn. Caller t enters: preProcess and setBuffer;   *)
(* then one turn of the while loop at a time, counted in turns; when the test *)
(* of the loop finds the end of the buffer, postProcess runs and the call     *)
(* returns. An exception ends the call where it is thrown.                    *)
EnterProcessResponse(t, response, h) ==
    /\ callers = EmptyMap
    /\ Len(records) < MaxRecords
    /\ \E r \in {preProcess(Self(h))} :
         IF Failed(r)
         THEN Store(r, "processResponse", response.frames, <<>>) /\ callers' = callers
         ELSE /\ Store(setBuffer(r, response.words, Len(response.words)),
                       "processResponse", response.frames, <<>>)
              /\ callers' = (t :> [turns |-> 0]) @@ callers
    /\ UNCHANGED hist

TurnProcessResponse(t, h) ==
    /\ t \in DOMAIN callers
    /\ ~endOfBuffer(Self(h))
    /\ \E m \in {Dispatch(Self(h))} :
         /\ Store(m, "processResponse", op.args, <<>>)
         /\ callers' = IF Failed(m) THEN [u \in DOMAIN callers \ {t} |-> callers[u]]
                       ELSE [callers EXCEPT ![t].turns = @ + 1]
    /\ UNCHANGED hist

LeaveProcessResponse(t) ==
    /\ t \in DOMAIN callers
    /\ endOfBuffer(Self("none"))
    /\ Store(postProcess(Self("none")), "processResponse", op.args, <<>>)
    /\ callers' = [u \in DOMAIN callers \ {t} |-> callers[u]]
    /\ UNCHANGED hist

ChangeMode(address, mode) ==
    /\ Len(buffer) < MaxWords
    /\ Len(commanded) < MaxCommanded
    /\ Len(hist.issued) < MaxCommanded
    /\ Len(hist.sinceClear) < MaxSinceClear
    /\ \E m \in {changeILCMode(Self("none"), address, mode)} :
           Commit(m, "changeILCMode", <<address, mode>>, <<>>)
    /\ hist' = Issue(address, 65)

BroadcastFunction(address, function, counter, delay, data) ==
    /\ Len(buffer) < MaxWords
    /\ \E m \in {broadcastFunction(Self("none"), address, function, counter, delay, data)} :
           Commit(m, "broadcastFunction", <<address, function, counter, delay, data>>, <<>>)
    /\ UNCHANGED hist

NextBroadcastCounter ==
    /\ Len(hist.returned) < MaxCalls
    /\ \E m \in {nextBroadcastCounter(Self("none"))} :
        /\ Commit(m, "nextBroadcastCounter", <<>>, <<m.ret>>)
        /\ hist' = IF hist.on THEN [hist EXCEPT !.returned = Append(@, m.ret)] ELSE hist

(* write<type>(v) into an empty buffer, and read<type>(); v is an integer for *)
(* the one and two byte types and the bytes of the value, most significant    *)
(* first, for the wider ones (for int32_t, of its two's complement).          *)
Write(type, v) ==
    /\ buffer = <<>>
    /\ Commit(writeTyped(Self("none"), <<type, v>>), "write", <<type, v>>, <<>>)
    /\ hist' = IF hist.on THEN [hist EXCEPT !.written = Append(@, <<type, v>>)] ELSE hist

WriteI24(data) ==
    /\ buffer = <<>>
    /\ Commit(writeI24(Self("none"), data), "writeI24", <<data>>, <<>>)
    /\ UNCHANGED hist

WriteCRC ==
    /\ Len(buffer) < MaxWords
    /\ Commit(writeCRC(Self("none")), "writeCRC", <<>>, <<>>)
    /\ UNCHANGED hist

ReadU48 ==
    /\ \E m \in {readU48(Self("none"))} : Commit(m, "readU48", <<>>, <<m.ret>>)
    /\ UNCHANGED hist

(* writeWaitForRx, writeDelay, and readWaitForRx and readDelay, which read     *)
(* the word at the cursor unchecked (see CurrentWords).                       *)
WriteWaitForRx(timeoutMicros) ==
    /\ Len(buffer) < MaxDurations
    /\ Commit(writeWaitForRx(Self("none"), timeoutMicros),
              "writeWaitForRx", <<timeoutMicros>>, <<>>)
    /\ UNCHANGED hist

WriteDelay(delayMicros) ==
    /\ Len(buffer) < MaxDurations
    /\ Commit(writeDelay(Self("none"), delayMicros), "writeDelay", <<delayMicros>>, <<>>)
    /\ UNCHANGED hist

ReadWaitForRx ==
    /\ \E w \in CurrentWords(Self("none")) :
         \E m \in {readWaitForRx(Self("none"), w)} :
            Commit(m, "readWaitForRx", <<>>, <<m.ret>>)
    /\ UNCHANGED hist

ReadDelay ==
    /\ \E w \in CurrentWords(Self("none")) :
         \E m \in {readDelay(Self("none"), w)} :
            Commit(m, "readDelay", <<>>, <<m.ret>>)
    /\ UNCHANGED hist

WriteEndOfFrame ==
    /\ Len(buffer) < MaxDurations
    /\ Commit(writeEndOfFrame(Self("none")), "writeEndOfFrame", <<>>, <<>>)
    /\ UNCHANGED hist

WriteRxEndFrame ==
    /\ Len(buffer) < MaxDurations
    /\ Commit(writeRxEndFrame(Self("none")), "writeRxEndFrame", <<>>, <<>>)
    /\ UNCHANGED hist

ReadEndOfFrame ==
    /\ \E w \in CurrentWords(Self("none")) :
         Commit(readEndOfFrame(Self("none"), w), "readEndOfFrame", <<>>, <<>>)
    /\ UNCHANGED hist

Peek ==
    /\ \E w \in CurrentWords(Self("none")) :
         \E m \in {peek(Self("none"), w)} : Commit(m, "peek", <<>>, <<m.ret>>)
    /\ UNCHANGED hist

EndOfFrame ==
    /\ \E w \in CurrentWords(Self("none")) :
         \E m \in {endOfFrame(Self("none"), w)} : Commit(m, "endOfFrame", <<>>, <<m.ret>>)
    /\ UNCHANGED hist

CheckRecording(cached) ==
    /\ \E m \in {checkRecording(Self("none"), cached)} :
           Commit(m, "checkRecording", <<cached>>, m.ret)
    /\ UNCHANGED hist

(* The other reads of the payload, next(), and setBuffer.                      *)
ReadString(length) ==
    /\ \E m \in {readString(Self("none"), length)} :
           Commit(m, "readString", <<length>>, <<m.ret>>)
    /\ UNCHANGED hist

GetReadData(length) ==
    /\ \E m \in {getReadData(Self("none"), length)} :
           Commit(m, "getReadData", <<length>>, <<m.ret>>)
    /\ UNCHANGED hist

ReadBuffer(len) ==
    /\ \E m \in {readBuffer(Self("none"), len)} : Commit(m, "readBuffer", <<len>>, <<m.ret>>)
    /\ UNCHANGED hist

ReadTimestamp ==
    /\ \E m \in {readTimestamp(Self("none"))} : Commit(m, "readTimestamp", <<>>, <<m.ret>>)
    /\ UNCHANGED hist

CheckCRC ==
    /\ Commit(checkCRC(Self("none")), "checkCRC", <<>>, <<>>)
    /\ UNCHANGED hist

SkipWord ==
    /\ Commit(next(Self("none")), "next", <<>>, <<>>)
    /\ UNCHANGED hist

SetBuffer(words, length) ==
    /\ Commit(setBuffer(Self("none"), words, length), "setBuffer", <<words, length>>, <<>>)
    /\ UNCHANGED hist

Read(type) ==
    /\ \E m \in {readTyped(Self("none"), type)} :
           Commit(m, "read", <<type>>, <<m.ret>>)
    /\ hist' = IF hist.on THEN [hist EXCEPT !.before = op.name] ELSE hist

PushCommanded(address, function) ==
    /\ Len(commanded) < MaxCommanded
    /\ Len(hist.issued) < MaxCommanded
    /\ Len(hist.sinceClear) < MaxSinceClear
    /\ Commit(pushCommanded(Self("none"), address, function),
              "pushCommanded", <<address, function>>, <<>>)
    /\ hist' = Issue(address, function)

(* A response as the FPGA hands it over: the frames it holds and their words. *)
Response(frames) == [frames |-> frames, words |-> ResponseWords(frames)]

(* The history of snapshots, when it is on: valid maps <<address, function>>  *)
(* to the payload of the last response for that pair that arrived whole and   *)
(* with a right CRC and whose handler came past checkCRC; m is the instance   *)
(* as processResponse(frames) left it.                                        *)
PassedCRC(frames, m) ==
    /\ Len(frames) = 1
    /\ frames[1].crcOk /\ frames[1].cut = 0
    /\ frames[1].func \in {17, 18, 65}
    /\ \E i \in DOMAIN m.calls : m.calls[i].name = "checkCRC"
    /\ m.thrown.kind # "CRCError"

Noted(h, frames, m) ==
    IF h.snapshots /\ PassedCRC(frames, m)
    THEN [h EXCEPT !.valid = (<<frames[1].address, frames[1].func>> :> frames[1].payload) @@ @]
    ELSE h

ProcessResponse(response, h) ==
    /\ Len(records) < MaxRecords
    /\ \E m \in {processResponse(Self(h), response.words)} :
        /\ Commit(m, "processResponse", response.frames, <<>>)
        /\ hist' = Noted(Observe(m), response.frames, m)

SetAlwaysTrigger(newAlwaysTrigger) ==
    /\ Commit(setAlwaysTrigger(Self("none"), newAlwaysTrigger),
              "setAlwaysTrigger", <<newAlwaysTrigger>>, <<>>)
    /\ UNCHANGED hist

CheckCommandedEmpty ==
    /\ Commit(checkCommandedEmpty(Self("none")), "checkCommandedEmpty", <<>>, <<>>)
    /\ hist' = Emptied

Clear(onlyBuffers) ==
    /\ Commit(clear(Self("none"), onlyBuffers), "clear", <<onlyBuffers>>, <<>>)
    /\ hist' = IF onlyBuffers THEN hist ELSE Restart

Reset ==
    /\ Commit(reset(Self("none")), "reset", <<>>, <<>>)
    /\ UNCHANGED hist

AddResponse(func, action, errorResponse, errorAction) ==
    /\ Commit(addResponse(Self("none"), func, action, errorResponse, errorAction),
              "addResponse", <<func, action, errorResponse, errorAction>>, <<>>)
    /\ UNCHANGED hist

-----------------------------------------------------------------------------
(* SpecLedger: the ledger and the dispatcher. Requests for function 107 to    *)
(* two units, their responses in any order, an error response, and a response *)
(* with a function code nobody registered; a subclass may register an error   *)
(* action for function 107.                                                   *)

HookOutcomes == {"none", "out_of_range", "runtime_error"}

LedgerFrames ==
    {Frame(a, 107, <<>>, TRUE, 0) : a \in {8, 9}}
        \cup {Frame(8, 235, <<2>>, TRUE, 0), Frame(8, 235, <<2>>, FALSE, 0),
              Frame(8, 99, <<>>, TRUE, 0)}

LedgerResponses ==
    {Response(<<f>>) : f \in LedgerFrames}
        \cup {Response(<<Frame(8, 107, <<>>, TRUE, 0), Frame(9, 107, <<>>, TRUE, 0)>>),
              Response(<<Frame(9, 107, <<>>, TRUE, 0), Frame(8, 107, <<>>, TRUE, 0)>>)}

(* A request is written into a cleared buffer.                                *)
LedgerNext ==
    \/ \E a \in {8, 9} : buffer = <<>> /\ CallFunction(a, 107, 335, <<>>)
    \/ \E r \in LedgerResponses, h \in HookOutcomes : ProcessResponse(r, h)
    \/ CheckCommandedEmpty
    \/ \E b \in BOOLEAN : Clear(b)
    \/ AddResponse(107, "ILC107", 235, "errorAction")

SpecLedger == Init /\ [][LedgerNext]_vars

(* SpecFront: the same requests and responses, with callFunction,             *)
(* processResponse and clear() only, and the history of the responses that   *)
(* arrived.                                                                   *)
FrontNext ==
    \/ \E a \in {8, 9} : buffer = <<>> /\ CallFunction(a, 107, 335, <<>>)
    \/ \E r \in LedgerResponses, h \in HookOutcomes : ProcessResponse(r, h)
    \/ \E b \in BOOLEAN : Clear(b)
    \/ AddResponse(107, "ILC107", 235, "errorAction")

InitFront == Constructed /\ hist = [NoHist EXCEPT !.front = TRUE]

SpecFront == InitFront /\ [][FrontNext]_vars

-----------------------------------------------------------------------------
(* SpecPush: what reaches the ledger. pushCommanded and callFunction with the *)
(* addresses around the edges of the unicast ranges and with the broadcast    *)
(* addresses.                                                                 *)

PushAddresses == {0, 1, 147, 148, 149, 247, 248, 250, 254, 255}

PushNext ==
    \/ \E a \in PushAddresses : PushCommanded(a, 107)
    \/ \E a \in PushAddresses : buffer = <<>> /\ CallFunction(a, 107, 335, <<>>)
    \/ \E b \in BOOLEAN : Clear(b)

SpecPush == Init /\ [][PushNext]_vars

-----------------------------------------------------------------------------
(* SpecCache: the change cache and the last mode. One unit, server status     *)
(* (18) and mode change (65) requests, their responses with a good or a bad    *)
(* CRC, hooks that return or throw. The ledger history is off.                *)

InitQuiet == Constructed /\ hist = HistOff

ServerStatus(ok) == Frame(8, 18, <<0, 0, 0, 0, 0>>, ok, 0)
ChangeILCMode(ok) == Frame(8, 65, <<0, 3>>, ok, 0)

CacheResponses ==
    {Response(<<ServerStatus(ok)>>) : ok \in BOOLEAN}
        \cup {Response(<<ChangeILCMode(ok)>>) : ok \in BOOLEAN}

CacheNext ==
    \/ \E f \in {18, 65} : PushCommanded(8, f)
    \/ \E r \in CacheResponses, h \in {"none", "runtime_error"} : ProcessResponse(r, h)
    \/ Reset

SpecCache == InitQuiet /\ [][CacheNext]_vars

-----------------------------------------------------------------------------
(* SpecCRC: responses with a bad CRC for each of the five functions of the    *)
(* ILC, among good server status responses. One unit, one request in flight.  *)

ServerID == <<12, 1, 2, 3, 4, 5, 6, 7, 8, 9, 10, 11, 12>>

BadCRCFrames ==
    {ServerStatus(FALSE), ChangeILCMode(FALSE), Frame(8, 17, ServerID, FALSE, 0),
     Frame(8, 17, <<11>>, FALSE, 0), Frame(8, 72, <<9>>, FALSE, 0),
     Frame(8, 107, <<>>, FALSE, 0)}

CRCResponses == {Response(<<f>>) : f \in BadCRCFrames \cup {ServerStatus(TRUE)}}

CRCNext ==
    \/ \E f \in {17, 18, 65, 72, 107} : commanded = <<>> /\ PushCommanded(8, f)
    \/ \E r \in CRCResponses : ProcessResponse(r, "none")
    \/ Reset

SpecCRC == InitQuiet /\ [][CRCNext]_vars

-----------------------------------------------------------------------------
(* SpecFrames: requests written back to back into the buffer by callFunction  *)
(* and read back from it frame by frame, as the tests of the ILCs read back   *)
(* what they wrote. The ledger history is off.                                *)

(* The byte instructions that lie in the buffer from position i on.           *)
RECURSIVE BytesAhead(_, _)
BytesAhead(words, i) ==
    IF i < Len(words) /\ And(words[i + 1], CMD_MASK) = WRITE
    THEN 1 + BytesAhead(words, i + 1)
    ELSE 0

(* Reading one frame back: its bytes up to the CRC, then checkCRC,            *)
(* readEndOfFrame and readWaitForRx; the timeout read is returned in ret.     *)
readFrame(m, w1, w2) ==
    LET r1 == readBuffer(m, BytesAhead(m.buffer, m.index) - 2) IN
    IF Failed(r1) THEN r1 ELSE
    LET r2 == checkCRC(r1) IN IF Failed(r2) THEN r2 ELSE
    LET r3 == readEndOfFrame(r2, IF r2.index < Len(r2.buffer)
                                 THEN r2.buffer[r2.index + 1] ELSE w1) IN
    IF Failed(r3) THEN r3 ELSE
    readWaitForRx(r3, IF r3.index < Len(r3.buffer) THEN r3.buffer[r3.index + 1] ELSE w2)

ReadFrame ==
    /\ index < Len(buffer)
    /\ \E w1 \in GarbageWords, w2 \in GarbageWords :
         \E m \in {readFrame(Self("none"), w1, w2)} :
            Commit(m, "readFrame", <<>>, <<m.ret>>)
    /\ UNCHANGED hist

(* The requests of the ILCs: reset server, server status with timeouts at the *)
(* edge of the short form, change ILC mode, set offset and sensitivity (a     *)
(* channel and two floats, here 2.34 and -4.56).                              *)
FrameCalls ==
    {<<8, 107, 335, <<>>>>,
     <<9, 18, 4095, <<>>>>,
     <<9, 18, 4096, <<>>>>,
     <<8, 65, 335, <<<<"uint16", 3>>>>>>,
     <<231, 81, 36500, <<<<"uint8", 1>>, <<"uint32", <<64, 21, 194, 143>>>>,
                         <<"uint32", <<192, 145, 235, 133>>>>>>>>}

FramesNext ==
    \/ \E c \in FrameCalls : CallFunction(c[1], c[2], c[3], c[4])
    \/ Reset
    \/ ReadFrame
    \/ Clear(FALSE)

SpecFrames == InitQuiet /\ [][FramesNext]_vars

-----------------------------------------------------------------------------
(* SpecMode: mode changes of two units, among the server status and mode      *)
(* change responses that record their modes. The requested modes are Standby, *)
(* Enabled, FirmwareUpdate and 259, which has FirmwareUpdate in its low byte. *)
(* One request is in flight, and a unit answers when it is its turn. The      *)
(* ledger history is off.                                                     *)

ModeUnits == {8, 9}
RequestedModes == {Standby, Enabled, FirmwareUpdate, 259}
ReportedModes == {Standby, Enabled, FirmwareUpdate}

ModeResponses ==
    {Response(<<Frame(a, 18, <<mode, 0, 0, 0, 0>>, TRUE, 0)>>) :
        a \in ModeUnits, mode \in ReportedModes}
      \cup {Response(<<Frame(a, 65, <<0, FirmwareUpdate>>, TRUE, 0)>>) : a \in ModeUnits}

ModeNext ==
    \/ \E a \in ModeUnits, mode \in RequestedModes :
          buffer = <<>> /\ commanded = <<>> /\ ChangeMode(a, mode)
    \/ \E a \in ModeUnits : commanded = <<>> /\ PushCommanded(a, 18)
    \/ \E r \in ModeResponses :
          /\ commanded # <<>>
          /\ Head(commanded)[1] = r.frames[1].address
          /\ ProcessResponse(r, "none")
    \/ Clear(FALSE)

SpecMode == InitQuiet /\ [][ModeNext]_vars

-----------------------------------------------------------------------------
(* SpecCounter: the broadcast counter, taken for broadcasts (function 66 to   *)
(* address 250) that are written into a cleared buffer.                       *)

CounterNext ==
    \/ NextBroadcastCounter
    \/ buffer = <<>> /\ BroadcastFunction(250, 66, broadcastCounter, 300, <<1, 2>>)
    \/ Clear(TRUE)

SpecCounter == Init /\ [][CounterNext]_vars

-----------------------------------------------------------------------------
(* SpecValues: values of the integer types and 24 bit values written into a   *)
(* cleared buffer, a CRC written behind them, and the words read back as any  *)
(* of the types or as 48 bits, after a reset or without one.                  *)

IntegerTypes == {"uint8", "uint16", "uint32", "int32", "uint64"}

SizeOf(type) ==
    IF type = "uint8" THEN 1 ELSE IF type = "uint16" THEN 2
    ELSE IF type = "uint64" THEN 8 ELSE 4

ValuesOf(type) ==
    IF type = "uint8" THEN {0, 1, 127, 128, 255}
    ELSE IF type = "uint16" THEN {0, 1, 255, 256, 4660, 32768, 65535}
    ELSE IF type = "uint64"
    THEN {<<0, 0, 0, 0, 0, 0, 0, 0>>, <<1, 35, 69, 103, 137, 171, 205, 239>>,
          <<255, 255, 255, 255, 255, 255, 255, 255>>, <<0, 0, 0, 0, 0, 0, 0, 1>>}
    ELSE {<<0, 0, 0, 0>>, <<0, 0, 0, 1>>, <<18, 52, 86, 120>>, <<127, 255, 255, 255>>,
          <<128, 0, 0, 0>>, <<255, 255, 255, 255>>}

I24Values == {0, 1, 66051, 8388607, -1, -8388608, -66052}

ValuesNext ==
    \/ \E type \in IntegerTypes : \E v \in ValuesOf(type) : Write(type, v)
    \/ \E data \in I24Values : WriteI24(data)
    \/ op.name \in {"write", "writeI24"} /\ WriteCRC
    \/ ReadU48
    \/ Reset
    \/ \E type \in IntegerTypes : Read(type)
    \/ Clear(FALSE)

SpecValues == Init /\ [][ValuesNext]_vars

-----------------------------------------------------------------------------
(* SpecServerID: server ID (17) responses of one unit, all with a good CRC:   *)
(* without a firmware name and with two names of two bytes, with a length     *)
(* byte below 12 (alone, and in front of the twelve bytes of the fields), and *)
(* with a length byte that says two bytes more or two bytes less than the     *)
(* frame holds. One request is in flight.                                     *)

ServerIDFixed == <<1, 2, 3, 4, 5, 6, 7, 8, 9, 10, 11, 12>>

ServerIDPayloads ==
    {<<12>> \o ServerIDFixed,
     <<14>> \o ServerIDFixed \o <<65, 66>>,
     <<14>> \o ServerIDFixed \o <<67, 68>>,
     <<0>>,
     <<11>> \o ServerIDFixed,
     <<14>> \o ServerIDFixed,
     <<12>> \o ServerIDFixed \o <<65, 66>>}

ServerIDResponses == {Response(<<Frame(8, 17, p, TRUE, 0)>>) : p \in ServerIDPayloads}

ServerIDNext ==
    \/ commanded = <<>> /\ PushCommanded(8, 17)
    \/ \E r \in ServerIDResponses : ProcessResponse(r, "none")
    \/ Reset

SpecServerID == InitQuiet /\ [][ServerIDNext]_vars

-----------------------------------------------------------------------------
(* SpecTrigger: server ID, server status and mode change responses of one     *)
(* unit while every response counts as a change, or not: each of them with a  *)
(* good CRC, a second server status, and a mode change response with a bad    *)
(* CRC. Hooks return or throw. One request is in flight.                      *)

TriggerFrames ==
    {Frame(8, 17, ServerID, TRUE, 0), ServerStatus(TRUE),
     Frame(8, 18, <<2, 0, 0, 0, 1>>, TRUE, 0), ChangeILCMode(TRUE), ChangeILCMode(FALSE)}

TriggerNext ==
    \/ \E b \in BOOLEAN : b # alwaysTrigger /\ SetAlwaysTrigger(b)
    \/ \E f \in {17, 18, 65} : commanded = <<>> /\ PushCommanded(8, f)
    \/ \E f \in TriggerFrames, h \in {"none", "runtime_error"} :
          /\ commanded = <<<<8, f.func>>>>
          /\ ProcessResponse(Response(<<f>>), h)

SpecTrigger == InitQuiet /\ [][TriggerNext]_vars

-----------------------------------------------------------------------------
(* SpecSnapshot: the snapshots of the change cache. One unit, one request in  *)
(* flight; server ID, server status and mode responses that arrive whole and  *)
(* right, with a bad CRC, cut short, or with a server ID length below 12. The *)
(* history of snapshots is on.                                                *)

InitSnapshot == Constructed /\ hist = [HistOff EXCEPT !.snapshots = TRUE]

SnapshotFrames ==
    {Frame(8, 17, ServerID, TRUE, 0), Frame(8, 17, <<11>> \o ServerIDFixed, TRUE, 0),
     ServerStatus(TRUE), ServerStatus(FALSE), Frame(8, 18, <<2, 0, 0, 0, 1>>, TRUE, 0),
     Frame(8, 18, <<2, 0, 0, 0, 1>>, TRUE, 3),
     ChangeILCMode(TRUE), ChangeILCMode(FALSE)}

SnapshotNext ==
    \/ \E f \in {17, 18, 65} : commanded = <<>> /\ PushCommanded(8, f)
    \/ \E f \in SnapshotFrames, h \in {"none", "runtime_error"} :
          /\ commanded = <<<<8, f.func>>>>
          /\ ProcessResponse(Response(<<f>>), h)

SpecSnapshot == InitSnapshot /\ [][SnapshotNext]_vars

-----------------------------------------------------------------------------
(* SpecFraming: the words around the payload. A request as callFunction       *)
(* writes it, a delay and the end of a received frame are set as the buffer   *)
(* and read word by word; a byte is written into an empty buffer and a CRC or *)
(* a framing word behind it. A server ID response with a length below 12 leaves recording *)
(* on, so that the operations are seen with recording on and off; at most one *)
(* more byte is then read or written.                                         *)

FramingBuffers ==
    {<<>>, callFunction(Blank, 8, 107, 335, <<>>).buffer,
     <<Or(DELAY, 335), RX_ENDFRAME>>}

FramingNext ==
    \/ commanded = <<>> /\ records = <<>> /\ PushCommanded(8, 17)
    \/ /\ commanded = <<<<8, 17>>>>
       /\ ProcessResponse(Response(<<Frame(8, 17, <<11>>, TRUE, 0)>>), "none")
    \/ \E words \in FramingBuffers : SetBuffer(words, Len(words))
    \/ Len(records) <= 1 /\ Write("uint8", 5)
    \/ Len(records) <= 1 /\ Len(buffer) = 1 /\ WriteCRC
    \/ Len(buffer) = 1 /\ WriteEndOfFrame
    \/ Len(buffer) = 1 /\ WriteRxEndFrame
    \/ Len(buffer) = 1 /\ WriteWaitForRx(36500)
    \/ Len(buffer) = 1 /\ WriteDelay(335)
    \/ Len(records) <= 1 /\ Read("uint8")
    \/ CheckCRC
    \/ index <= Len(buffer) /\ ReadEndOfFrame
    \/ index <= Len(buffer) /\ ReadWaitForRx
    \/ index <= Len(buffer) /\ ReadDelay
    \/ Peek
    \/ EndOfFrame
    \/ SkipWord
    \/ Reset

SpecFraming == InitQuiet /\ [][FramingNext]_vars

-----------------------------------------------------------------------------
(* SpecCheckRecording: checkRecording called with recording on and off and    *)
(* with recorded bytes that equal the cached ones or not. The recorded bytes  *)
(* are those a server ID response with a length below 12 and a mode response  *)
(* with a bad CRC leave behind, and those of bytes read afterwards.           *)

CachedVectors == {<<>>, <<11>>, <<0, 3>>, <<3>>}

CheckRecordingNext ==
    \/ \E f \in {17, 65} : commanded = <<>> /\ records = <<>> /\ PushCommanded(8, f)
    \/ \E f \in {Frame(8, 17, <<11>>, TRUE, 0), ChangeILCMode(FALSE), ChangeILCMode(TRUE)} :
          /\ commanded = <<<<8, f.func>>>>
          /\ ProcessResponse(Response(<<f>>), "none")
    \/ Len(records) <= 1 /\ Read("uint8")
    \/ \E cached \in CachedVectors : CheckRecording(cached)
    \/ Reset

SpecCheckRecording == InitQuiet /\ [][CheckRecordingNext]_vars

-----------------------------------------------------------------------------
(* SpecDispatch: the while loop of processResponse, one turn at a time.       *)
(* Responses of no, one, two and three frames for the requests in the ledger  *)
(* or for others, with a good or a bad CRC, cut short in the header or in the *)
(* CRC, and an error response; hooks that return or throw. SpecDispatchLive   *)
(* adds that a call under way goes on: processResponse is synchronous.        *)

DispatchFrames ==
    {<<>>,
     <<Frame(8, 107, <<>>, TRUE, 0)>>,
     <<Frame(8, 107, <<>>, TRUE, 0), Frame(9, 107, <<>>, TRUE, 0)>>,
     <<Frame(8, 107, <<>>, TRUE, 0), Frame(9, 107, <<>>, TRUE, 0), ServerStatus(TRUE)>>,
     <<Frame(8, 107, <<>>, TRUE, 0), Frame(9, 107, <<>>, FALSE, 0)>>,
     <<Frame(8, 107, <<>>, TRUE, 0), Frame(9, 107, <<>>, TRUE, 3)>>,
     <<Frame(8, 107, <<>>, TRUE, 1)>>,
     <<Frame(8, 235, <<2>>, TRUE, 0), Frame(9, 107, <<>>, TRUE, 0)>>,
     <<ServerStatus(TRUE), ServerStatus(TRUE)>>}

DispatchNext ==
    \/ \E c \in {<<8, 107>>, <<9, 107>>, <<8, 18>>} :
          callers = EmptyMap /\ PushCommanded(c[1], c[2])
    \/ \E frames \in DispatchFrames, h \in {"none", "preProcess"} :
          EnterProcessResponse(1, Response(frames), h)
    \/ \E h \in {"none", "runtime_error"} : TurnProcessResponse(1, h)
    \/ LeaveProcessResponse(1)
    \/ callers = EmptyMap /\ Clear(FALSE)

SpecDispatch == InitQuiet /\ [][DispatchNext]_vars

(* Weak fairness of the turn and of the return. A turn changes the cursor or  *)
(* ends the call, so it is enabled exactly when TurnEnabled holds, and its    *)
(* fairness is written with that condition in the place of ENABLED.           *)
TurnEnabled == callers # EmptyMap /\ index < Len(buffer)

SpecDispatchLive ==
    /\ SpecDispatch
    /\ \/ []<>(~TurnEnabled)
       \/ []<><<\E h \in {"none", "runtime_error"} : TurnProcessResponse(1, h)>>_vars
    /\ WF_vars(LeaveProcessResponse(1))

-----------------------------------------------------------------------------
(* SpecRecording: the recording flag and the CRC bytes. Server ID requests    *)
(* and responses of one unit, among them one with a length below 12, whose    *)
(* handler fails while it records; a request or a CRC written into a cleared  *)
(* buffer or right behind a response, and a CRC read afterwards.              *)

RecordingFrames ==
    {Frame(8, 17, ServerID, TRUE, 0), Frame(8, 17, <<11>>, TRUE, 0)}

RecordingNext ==
    \/ commanded = <<>> /\ PushCommanded(8, 17)
    \/ \E f \in RecordingFrames :
          commanded = <<<<8, 17>>>> /\ ProcessResponse(Response(<<f>>), "none")
    \/ /\ buffer = <<>> \/ op.name = "processResponse"
       /\ commanded = <<>> /\ Len(records) < MaxRecords
       /\ CallFunction(8, 17, 335, <<>>)
    \/ Write("uint8", 18)
    \/ /\ op.name \in {"write", "processResponse"}
       /\ Len(records) < MaxRecords
       /\ WriteCRC
    \/ CheckCRC
    \/ Clear(FALSE)

SpecRecording == InitQuiet /\ [][RecordingNext]_vars

-----------------------------------------------------------------------------
(* SpecReads: buffers of no to seven words and a reset server response (four  *)
(* words with a good CRC) set with setBuffer, whole or without their last two *)
(* words, over what was set or written before, and every read of the payload  *)
(* and next() at every cursor position.                                       *)

ByteWords(n) == [i \in 1..n |-> Or(RX_MASK, 2 * i)]

ReadBuffers ==
    {ByteWords(n) : n \in {0, 1, 3, 7}} \cup {FrameWords(Frame(8, 107, <<>>, TRUE, 0))}

ReadsNext ==
    \/ \E words \in ReadBuffers :
          \E length \in {Len(words), Len(words) - 2} \cap Nat : SetBuffer(words, length)
    \/ Write("uint16", 4660)
    \/ \E type \in IntegerTypes : Read(type)
    \/ ReadU48
    \/ \E length \in {0, 3} : ReadString(length)
    \/ \E len \in {1, 5} : ReadBuffer(len)
    \/ ReadTimestamp
    \/ CheckCRC
    \/ SkipWord

SpecReads == InitQuiet /\ [][ReadsNext]_vars

-----------------------------------------------------------------------------
(* SpecClear: clear and reset among requests written into the buffer and      *)
(* responses of one unit, of which the server ID response with length byte 11 *)
(* and the mode change response with a bad CRC fail and leave the cursor, the *)
(* CRC and the recording as they are when the error is raised.                *)

ClearFrames ==
    {ServerStatus(TRUE), ChangeILCMode(TRUE), ChangeILCMode(FALSE),
     Frame(8, 17, <<11>>, TRUE, 0)}

ClearNext ==
    \/ \E f \in {17, 18, 65} : CallFunction(8, f, 335, <<>>)
    \/ \E f \in ClearFrames :
          /\ commanded # <<>>
          /\ Head(commanded) = <<8, f.func>>
          /\ ProcessResponse(Response(<<f>>), "none")
    \/ Clear(TRUE)
    \/ Clear(FALSE)
    \/ Reset

SpecClear == InitQuiet /\ [][ClearNext]_vars

-----------------------------------------------------------------------------
(* SpecHooks: responses of no, one and two frames for the requests of two     *)
(* units: reset server responses, error responses with a good and a bad CRC   *)
(* (with and without a registered error action), an unknown function, a       *)
(* second frame with a bad CRC. The hooks return or throw, and so does         *)
(* preProcess.                                                                *)

HooksResponses ==
    LedgerResponses
        \cup {Response(<<>>),
              Response(<<Frame(8, 107, <<>>, TRUE, 0), Frame(9, 107, <<>>, FALSE, 0)>>)}

HooksNext ==
    \/ \E a \in {8, 9} : PushCommanded(a, 107)
    \/ \E r \in HooksResponses, h \in HookOutcomes \cup {"preProcess"} :
          ProcessResponse(r, h)
    \/ AddResponse(107, "ILC107", 235, "errorAction")
    \/ Clear(FALSE)

SpecHooks == InitQuiet /\ [][HooksNext]_vars

-----------------------------------------------------------------------------
(* SpecPressure: mezzanine pressure (119) responses of unit 18 with the four  *)
(* floats of the test of the pressure data in every order, with a good or a   *)
(* bad CRC, for a request written into a cleared buffer; the handler is       *)
(* registered after construction, and the hook returns or throws.             *)

Floats ==
    {<<64, 73, 15, 216>>,      \* 3.141592f
     <<63, 172, 60, 159>>,     \* 1.3456f
     <<194, 255, 80, 98>>,     \* -127.657f
     <<192, 73, 101, 44>>}     \* -3.1468f

PressureOrders == {p \in [1..4 -> Floats] : \A i, j \in 1..4 : p[i] = p[j] => i = j}

PressureFrames ==
    {Frame(18, 119, p[1] \o p[2] \o p[3] \o p[4], ok, 0) : p \in PressureOrders, ok \in BOOLEAN}

PressureNext ==
    \/ 119 \notin DOMAIN actions /\ AddResponse(119, "EP119", 247, "nullptr")
    \/ buffer = <<>> /\ commanded = <<>> /\ CallFunction(18, 119, 1800, <<>>)
    \/ \E f \in PressureFrames, h \in {"none", "runtime_error"} :
          /\ commanded # <<>>
          /\ 119 \in DOMAIN actions
          /\ ProcessResponse(Response(<<f>>), h)
    \/ Reset
    \/ Clear(FALSE)

SpecPressure == InitQuiet /\ [][PressureNext]_vars

-----------------------------------------------------------------------------
(* SpecCallers: two callers of callFunction on one instance, each with a      *)
(* request without arguments for one of two units, whose steps come in any    *)
(* order: one call after the other, or the two interleaved word by word.      *)

Callers == {1, 2}

CallersNext ==
    \/ \E t \in Callers, a \in {8, 9} : EnterCallFunction(t, a, 107, 335)
    \/ \E t \in Callers : StepCallFunction(t)
    \/ callers = EmptyMap /\ Clear(FALSE)

SpecCallers == InitQuiet /\ [][CallersNext]_vars

-----------------------------------------------------------------------------
(* SpecLayout: requests and broadcasts written back to back into a buffer:    *)
(* the requests of SpecFrames, and broadcasts to the broadcast addresses with *)
(* no, one and two bytes of data and a short or a long delay.                 *)

Broadcasts ==
    {<<250, 66, 1, 300, <<1, 2>>>>,
     <<0, 66, 15, 5000, <<>>>>,
     <<148, 68, 2, 4095, <<255>>>>}

LayoutNext ==
    \/ \E c \in FrameCalls : CallFunction(c[1], c[2], c[3], c[4])
    \/ \E b \in Broadcasts : BroadcastFunction(b[1], b[2], b[3], b[4], b[5])
    \/ Clear(FALSE)

SpecLayout == InitQuiet /\ [][LayoutNext]_vars

-----------------------------------------------------------------------------
(* SpecDurations: timeouts and delays written into a buffer, behind a byte or *)
(* not, and read back as the one or the other. The durations lie at the edges *)
(* of the short form and of the 12 bits of the long form; 36500 and 100000    *)
(* are the timeouts of the ILC requests.                                      *)

Durations == {0, 335, 4095, 4096, 36500, 100000, 4094999, 4095000, 5000000}

DurationsNext ==
    \/ \E d \in Durations : WriteWaitForRx(d)
    \/ \E d \in Durations : WriteDelay(d)
    \/ Write("uint8", 5)
    \/ ReadWaitForRx
    \/ ReadDelay
    \/ Reset
    \/ Clear(FALSE)

SpecDurations == InitQuiet /\ [][DurationsNext]_vars

-----------------------------------------------------------------------------
(* Properties of the ledger.                                                  *)

Distinct(s) == \A i, j \in 1..Len(s) : i # j => s[i] # s[j]

IsPrefix(s, t) == Len(s) <= Len(t) /\ SubSeq(t, 1, Len(s)) = s

(* The process* hooks an operation invoked, from its trace.                   *)
RECURSIVE HooksIn(_)
HooksIn(trace) ==
    IF trace = <<>> THEN <<>>
    ELSE IF Head(trace).name \in ProcessHooks
         THEN <<Head(trace)>> \o HooksIn(Tail(trace))
         ELSE HooksIn(Tail(trace))

(* o is processResponse of one whole frame; the frame.                        *)
OneFrame(o) == o.name = "processResponse" /\ Len(o.args) = 1 /\ o.args[1].cut = 0
FrameOf(o) == o.args[1]

(* The snapshot the change cache holds for (address, func).                   *)
Cached(cache, address, func) == Lookup(Lookup(cache, address, EmptyMap), func, <<>>)

(* The mode a function 18 or 65 response carries.                             *)
ModeOf(f) == IF f.func = 18 THEN f.payload[1] ELSE f.payload[2]

(* C1: when the requests issued have pairwise distinct <<address, function>>  *)
(* pairs, responses that come in the order of the requests raise no           *)
(* UnmatchedFunction (as long as none was raised, the pairs seen are a prefix *)
(* of the pairs issued); and the first UnmatchedFunction is raised at the     *)
(* first response that differs from the request at its position, the front of *)
(* the ledger, and reports that request as the expected pair.                 *)
C1_ResponsesInOrder ==
    Distinct(hist.issued) =>
        /\ hist.unmatchedAt = 0 => IsPrefix(hist.seen, hist.issued)
        /\ hist.unmatchedAt # 0 =>
              LET k == hist.unmatchedAt IN
              /\ SubSeq(hist.seen, 1, k - 1) = SubSeq(hist.issued, 1, k - 1)
              /\ k <= hist.issuedThen =>
                    /\ hist.seen[k] # hist.issued[k]
                    /\ hist.expected = hist.issued[k]
              /\ k > hist.issuedThen => hist.expected = <<>>

(* Requests to 8 then 9, the response of 9 first: rejected, 8 expected.       *)
C1_Witness ==
    /\ hist.issued = <<<<8, 107>>, <<9, 107>>>>
    /\ hist.unmatchedAt = 1
    /\ hist.seen = <<<<9, 107>>>>
    /\ hist.expected = <<8, 107>>
    /\ thrown.kind = "UnmatchedFunction"

(* C2: callFunction to a broadcast address (0, 148, 149, 250) leaves the      *)
(* ledger as it was.                                                          *)
C2_BroadcastNotEnqueued ==
    [][(op'.name = "callFunction" /\ op'.args[1] \in {0, 148, 149, 250})
          => commanded' = commanded]_vars

RequestOf(func) == IF func \in DOMAIN errorActions THEN errorActions[func][1] ELSE func

(* The ledger expects the response f next.                                    *)
LedgerPasses(f) ==
    commanded # <<>> /\ Head(commanded) = <<f.address, RequestOf(f.func)>>

(* C9: a response with a registered error code E, registered for the request  *)
(* function F, is taken to the ledger as <<address, F>>; then one exception   *)
(* byte is read and the CRC checked; only then is the registered error action *)
(* called with <<address, exception>> or, there being none, the protocol      *)
(* Exception raised. The ledger is left as a normal response for F would      *)
(* leave it: without its front entry.                                         *)
C9_ErrorResponse ==
    [][(/\ OneFrame(op')
        /\ FrameOf(op').func \in DOMAIN errorActions
        /\ FrameOf(op').func \notin DOMAIN actions)
          => LET f == FrameOf(op')
                 F == errorActions[f.func][1]
                 normal == processResponse(Self("none"),
                                           FrameWords(Frame(f.address, F, <<>>, TRUE, 0)))
             IN  /\ Len(calls') >= 2
                 /\ calls'[1].name = "preProcess"
                 /\ calls'[2] = [name |-> "checkCommanded", args |-> <<f.address, F>>]
                 /\ commanded' = normal.commanded
                 /\ commanded # <<>> => commanded' = Tail(commanded)
                 /\ IF ~LedgerPasses(f)
                    THEN thrown'.kind = "UnmatchedFunction" /\ Len(calls') = 2
                    ELSE /\ Len(calls') >= 3
                         /\ calls'[3].name = "checkCRC"
                         /\ index' = 5
                         /\ IF ~f.crcOk
                            THEN thrown'.kind = "CRCError" /\ Len(calls') = 3
                            ELSE IF errorActions[f.func][2] = "nullptr"
                            THEN /\ thrown' = Exception(f.address, f.func, f.payload[1])
                                 /\ Len(calls') = 3
                            ELSE /\ Len(calls') >= 4
                                 /\ calls'[4] = [name |-> "errorAction",
                                                 args |-> <<f.address, f.payload[1]>>]]_vars

(* The error response of unit 8 met its request and reached the error action  *)
(* a subclass registered.                                                     *)
C9_Witness ==
    /\ OneFrame(op)
    /\ FrameOf(op) = Frame(8, 235, <<2>>, TRUE, 0)
    /\ Len(calls) >= 4
    /\ calls[4] = [name |-> "errorAction", args |-> <<8, 2>>]

(* C10: processResponse raises UnknownResponse exactly when the ledger check  *)
(* passed and the function code of the response has neither a registered      *)
(* action nor a registered error code; a registered function never ends in    *)
(* UnknownResponse, whatever its handler does.                                *)
C10_UnknownResponse ==
    [][OneFrame(op') =>
          (thrown'.kind = "UnknownResponse"
              <=> /\ LedgerPasses(FrameOf(op'))
                  /\ FrameOf(op').func \notin DOMAIN actions
                  /\ FrameOf(op').func \notin DOMAIN errorActions)]_vars

-----------------------------------------------------------------------------
(* Properties of the handlers and the change cache.                           *)

(* C4: of two byte-identical CRC-valid responses for the same address and     *)
(* function 17, 18 or 65 that are processed one right after the other, with   *)
(* always_trigger off, the second invokes no process* hook, whatever happened *)
(* on the instance before.                                                    *)
C4_IdenticalResponseSilent ==
    [][(/\ OneFrame(op) /\ OneFrame(op')
        /\ FrameOf(op') = FrameOf(op)
        /\ FrameOf(op).func \in {17, 18, 65}
        /\ FrameOf(op).crcOk
        /\ thrown.kind # "UnmatchedFunction"
        /\ ~alwaysTrigger /\ ~alwaysTrigger')
          => HooksIn(calls') = <<>>]_vars

(* C5: a CRC-valid response for function 17, 18 or 65 whose payload differs   *)
(* from the snapshot cached for its address and function invokes the process* *)
(* hook exactly once, and afterwards that snapshot is the new payload.        *)
C5_ChangedResponseCached ==
    [][(/\ OneFrame(op')
        /\ FrameOf(op').func \in {17, 18, 65}
        /\ FrameOf(op').crcOk
        /\ thrown'.kind # "UnmatchedFunction"
        /\ Cached(cachedResponse, FrameOf(op').address, FrameOf(op').func)
              # FrameOf(op').payload)
          => /\ Len(HooksIn(calls')) = 1
             /\ Cached(cachedResponse', FrameOf(op').address, FrameOf(op').func)
                   = FrameOf(op').payload]_vars

(* C6: after a CRC-valid function 18 or 65 response has been handled,         *)
(* last_mode of its address is the mode that response carries.                *)
C6_LastModeIsLatest ==
    (/\ OneFrame(op)
     /\ FrameOf(op).func \in {18, 65}
     /\ FrameOf(op).crcOk
     /\ thrown.kind # "UnmatchedFunction")
       => /\ FrameOf(op).address \in DOMAIN lastMode
          /\ lastMode[FrameOf(op).address] = ModeOf(FrameOf(op))

(* A function 17 response whose length byte is below 12 is refused before     *)
(* its payload is read.                                                       *)
ShortServerID(f) == f.func = 17 /\ f.payload[1] < 12

-----------------------------------------------------------------------------
(* Properties of the frames.                                                  *)

(* C8: when the buffer holds frames written back to back by callFunction,     *)
(* reading a frame's bytes in order and then calling checkCRC, readEndOfFrame *)
(* and readWaitForRx does not throw.                                          *)
C8_ReadBackNeverThrows == op.name = "readFrame" => thrown.kind = "none"

(* The second of two frames has been read back, after a reset.                *)
C8_Witness ==
    /\ op.name = "readFrame"
    /\ thrown.kind = "none"
    /\ Len(commanded) = 2
    /\ index = Len(buffer)
    /\ ret = <<37000>>

-----------------------------------------------------------------------------
(* Properties of the dispatcher.                                              *)

(* C11: a response processed while the ledger is empty raises                 *)
(* UnmatchedFunction(address, function) for its first header, function being  *)
(* what the ledger was asked for (the function code, or the request function  *)
(* of a registered error code); nothing but the ledger check was entered      *)
(* before, neither a handler's CRC check nor a hook nor an error action, also *)
(* when the function code is unknown; and the ledger is still empty.          *)
C11_EmptyLedgerUnmatched ==
    [][(op'.name = "processResponse" /\ commanded = <<>>)
          => LET f == op'.args[1] IN
             /\ thrown' = UnmatchedFunction2(f.address, RequestOf(f.func))
             /\ calls' = <<[name |-> "preProcess", args |-> <<>>],
                           [name |-> "checkCommanded",
                            args |-> <<f.address, RequestOf(f.func)>>]>>
             /\ commanded' = <<>>]_vars

(* A response with the unknown function code 99 met an empty ledger.          *)
C11_Witness ==
    /\ OneFrame(op)
    /\ FrameOf(op).func = 99
    /\ thrown = UnmatchedFunction2(8, 99)
    /\ commanded = <<>>

-----------------------------------------------------------------------------
(* Properties of checkCommandedEmpty.                                         *)

(* The pairs a runtime error of checkCommandedEmpty lists, in its order.      *)
Listed(e) == IF e.kind = "runtime_error" THEN e.pairs ELSE <<>>

(* C12, the claim as written: checkCommandedEmpty returns normally exactly    *)
(* when every unicast request issued since the last clear() has had a         *)
(* response header dispatched, and otherwise raises a runtime error that      *)
(* lists the requests still waiting, in the order they were issued; the       *)
(* headers may have come in any number of processResponse calls.              *)
C12_SinceLastClear ==
    [][op'.name = "checkCommandedEmpty" =>
          /\ thrown'.kind = "none" <=> hist.sinceClear = <<>>
          /\ hist.sinceClear # <<>> =>
                thrown'.kind = "runtime_error" /\ Listed(thrown') = hist.sinceClear]_vars

(* C12, amended: the same, counted from the last time the ledger was emptied, *)
(* by clear() or by checkCommandedEmpty itself, which leaves the ledger empty *)
(* also when it raises.                                                       *)
C12_SinceLedgerEmptied ==
    [][op'.name = "checkCommandedEmpty" =>
          /\ thrown'.kind = "none" <=> hist.waiting = <<>>
          /\ hist.waiting # <<>> =>
                thrown'.kind = "runtime_error" /\ Listed(thrown') = hist.waiting
          /\ commanded' = <<>>]_vars

(* Of two requests, the first was answered (its response is what the buffer   *)
(* holds) and the second never: checkCommandedEmpty raised and listed the     *)
(* second.                                                                    *)
C12_Witness ==
    /\ op.name = "checkCommandedEmpty"
    /\ buffer = FrameWords(Frame(8, 107, <<>>, TRUE, 0))
    /\ index = Len(buffer)
    /\ thrown.kind = "runtime_error"
    /\ Listed(thrown) = <<<<9, 107>>>>
    /\ hist.sinceClear = <<<<9, 107>>>>
    /\ hist.waiting = <<>>

-----------------------------------------------------------------------------
(* Properties of the requests.                                                *)

(* The mode change of address to mode is between Standby and FirmwareUpdate,  *)
(* going by the mode on record for the address.                               *)
FirmwareTransition(address, mode) ==
    /\ address \in DOMAIN lastMode
    /\ \/ (lastMode[address] = Standby /\ mode = FirmwareUpdate)
       \/ (lastMode[address] = FirmwareUpdate /\ mode = Standby)

(* C13: the last word changeILCMode(address, mode) appends is TX_WAIT_LONG_RX *)
(* with value 101 when the mode on record for the address is Standby and mode *)
(* is FirmwareUpdate, or the other way round, and TX_WAIT_RX with value 335   *)
(* in every other case, also when no mode is on record for the address.       *)
C13_ModeChangeTimeout ==
    [][op'.name = "changeILCMode" =>
          /\ Len(buffer') = Len(buffer) + 8
          /\ SubSeq(buffer', 1, Len(buffer)) = buffer
          /\ buffer'[Len(buffer')] =
                IF FirmwareTransition(op'.args[1], op'.args[2])
                THEN TX_WAIT_LONG_RX + 101
                ELSE TX_WAIT_RX + 335]_vars

(* Unit 8 reported FirmwareUpdate, unit 9 Standby, and unit 8 was sent back   *)
(* to Standby with the long timeout.                                          *)
C13_Witness ==
    /\ op = [name |-> "changeILCMode", args |-> <<8, Standby>>]
    /\ 8 \in DOMAIN lastMode /\ lastMode[8] = FirmwareUpdate
    /\ 9 \in DOMAIN lastMode /\ lastMode[9] = Standby
    /\ buffer[Len(buffer)] = TX_WAIT_LONG_RX + 101

(* C14: the broadcast counter is always in 0..15; every call of               *)
(* nextBroadcastCounter returns the counter before it plus one, modulo 16,    *)
(* and leaves that in the counter; so the value call n + 16 returns is the    *)
(* value call n returned.                                                     *)
C14_BroadcastCounterWraps ==
    /\ [](/\ broadcastCounter \in 0..15
          /\ \A n \in 1..Len(hist.returned) :
                n > 16 => hist.returned[n] = hist.returned[n - 16])
    /\ [][op'.name = "nextBroadcastCounter" =>
             /\ ret' = <<(broadcastCounter + 1) % 16>>
             /\ broadcastCounter' = (broadcastCounter + 1) % 16]_vars

(* The 33rd call returned what the 17th and the first did.                    *)
C14_Witness ==
    /\ Len(hist.returned) = 33
    /\ hist.returned[33] = 1
    /\ hist.returned[17] = 1
    /\ hist.returned[1] = 1
    /\ hist.returned[16] = 0
    /\ op.name = "nextBroadcastCounter"

-----------------------------------------------------------------------------
(* Properties of the values.                                                  *)

(* C15: a value v of type uint8_t, uint16_t, uint32_t, uint64_t or int32_t    *)
(* written by write<T> into an empty buffer is what read<T> returns right     *)
(* after a reset(), and the read consumes sizeof(T) words.                    *)
C15_RoundTrip ==
    [][(/\ op'.name = "read"
        /\ op.name = "reset"
        /\ hist.written # <<>>
        /\ hist.written[1][1] = op'.args[1])
          => /\ thrown'.kind = "none"
             /\ ret' = <<hist.written[1][2]>>
             /\ index = 0
             /\ index' = SizeOf(op'.args[1])]_vars

(* 0x1234 came back as a uint16_t after a reset.                              *)
C15_Witness ==
    /\ op = [name |-> "read", args |-> <<"uint16">>]
    /\ hist.before = "reset"
    /\ hist.written = <<<<"uint16", 4660>>>>
    /\ ret = <<4660>>
    /\ index = 2

(* The bytes the words carry, and the words an operation appended.           *)
BytesOf(words) == [i \in 1..Len(words) |-> (words[i] \div 2) % 256]
Appended == SubSeq(buffer', Len(buffer) + 1, Len(buffer'))

(* C16: write<uint16_t>, write<uint32_t> and write<uint64_t> emit the bytes   *)
(* of the value most significant first, writeI24 the three low bytes of its   *)
(* argument most significant first, writeCRC the low byte of the CRC and then *)
(* the high byte; readU48 returns the six bytes b0..b5 it reads as the 64 bit *)
(* value whose bytes are 0, 0, b0, ..., b5 from the most significant down.    *)
C16_ByteOrder ==
    [][/\ (op'.name = "write" /\ op'.args[1] = "uint16")
            => BytesOf(Appended) = <<op'.args[2] \div 256, op'.args[2] % 256>>
       /\ (op'.name = "write" /\ op'.args[1] \in {"uint32", "uint64"})
            => BytesOf(Appended) = op'.args[2]
       /\ op'.name = "writeI24"
            => BytesOf(Appended) = <<(op'.args[1] \div 65536) % 256,
                                     (op'.args[1] \div 256) % 256,
                                     op'.args[1] % 256>>
       /\ op'.name = "writeCRC"
            => BytesOf(Appended) = <<crc % 256, crc \div 256>>
       /\ (op'.name = "readU48" /\ index + 6 <= Len(buffer))
            => /\ thrown'.kind = "none"
               /\ ret' = <<<<0, 0>> \o BytesOf(SubSeq(buffer, index + 1, index + 6))>>
      ]_vars

(* Six bytes of 0x0123456789abcdef and its CRC were there to be read as 48    *)
(* bits, from the third byte on.                                              *)
C16_Witness ==
    /\ op.name = "readU48"
    /\ hist.written = <<<<"uint64", <<1, 35, 69, 103, 137, 171, 205, 239>>>>>>
    /\ Len(buffer) = 10
    /\ index = 8
    /\ ret = <<<<0, 0, 69, 103, 137, 171, 205, 239>>>>

-----------------------------------------------------------------------------
(* Properties of the durations.                                               *)

(* The class of a word and its low 12 bits.                                   *)
ClassOf(w) == And(w, CMD_MASK)
Low12(w) == And(w, 4095)

(* The word is of class short with the duration in its low 12 bits when the   *)
(* duration is at most 0x0FFF, and of class long with (duration / 1000) + 1   *)
(* in its low 12 bits otherwise.                                              *)
Encodes(w, micros, short, long) ==
    IF micros <= 4095
    THEN ClassOf(w) = short /\ Low12(w) = micros
    ELSE ClassOf(w) = long /\ Low12(w) = (micros \div 1000) + 1

(* What a read of the word w as a duration of the classes short and long      *)
(* comes to.                                                                  *)
Decodes(w, short, long) ==
    IF ClassOf(w) = short THEN thrown'.kind = "none" /\ ret' = <<Low12(w)>>
    ELSE IF ClassOf(w) = long THEN thrown'.kind = "none" /\ ret' = <<Low12(w) * 1000>>
    ELSE thrown'.kind = "runtime_error"

(* C17: writeWaitForRx and writeDelay append exactly one word, which encodes  *)
(* the duration in the short class (TX_WAIT_RX, DELAY) or the long class      *)
(* (TX_WAIT_LONG_RX, LONG_DELAY); readWaitForRx and readDelay return the low  *)
(* 12 bits of a word of the short class, the low 12 bits times 1000 of a word *)
(* of the long class, and fail on a word of any other class.                  *)
C17_DurationWords ==
    [][/\ op'.name \in {"writeWaitForRx", "writeDelay"}
            => /\ buffer' = Append(buffer, buffer'[Len(buffer')])
               /\ IF op'.name = "writeWaitForRx"
                  THEN Encodes(buffer'[Len(buffer')], op'.args[1],
                               TX_WAIT_RX, TX_WAIT_LONG_RX)
                  ELSE Encodes(buffer'[Len(buffer')], op'.args[1], DELAY, LONG_DELAY)
       /\ (op'.name = "readWaitForRx" /\ index < Len(buffer))
            => Decodes(buffer[index + 1], TX_WAIT_RX, TX_WAIT_LONG_RX)
       /\ (op'.name = "readDelay" /\ index < Len(buffer))
            => Decodes(buffer[index + 1], DELAY, LONG_DELAY)
      ]_vars

-----------------------------------------------------------------------------
(* Properties of the layout of a frame.                                       *)

(* The bytes of the arguments of a request, each most significant byte first. *)
RECURSIVE ParamBytes(_)
ParamBytes(params) ==
    IF params = <<>> THEN <<>>
    ELSE (IF Head(params)[1] = "uint8" THEN <<Head(params)[2]>>
          ELSE IF Head(params)[1] = "uint16"
               THEN <<Head(params)[2] \div 256, Head(params)[2] % 256>>
          ELSE Head(params)[2]) \o ParamBytes(Tail(params))

(* The words are a frame of the payload bytes: a WRITE word for each byte and *)
(* two more for the CRC, the end of frame 0x20DA, and one word of the class   *)
(* short or long.                                                             *)
IsFrame(words, payload, short, long) ==
    /\ Len(words) = Len(payload) + 4
    /\ \A i \in 1..Len(payload) + 2 : ClassOf(words[i]) = WRITE
    /\ BytesOf(SubSeq(words, 1, Len(payload))) = payload
    /\ words[Len(payload) + 3] = 8410
    /\ ClassOf(words[Len(payload) + 4]) \in {short, long}

(* C18: a callFunction call appends WRITE words for address, function and the *)
(* argument bytes, two WRITE words for the CRC, the word 0x20DA and one wait   *)
(* for Rx word, in this order; a broadcastFunction call appends WRITE words    *)
(* for address, function, counter and the data bytes, two for the CRC, 0x20DA *)
(* and one delay word, and leaves the ledger as it is. Every WRITE word has   *)
(* bit 0 clear and its byte in bits 1..8.                                     *)
C18_FrameLayout ==
    /\ [](\A i \in 1..Len(buffer) : ClassOf(buffer[i]) = WRITE => buffer[i] % 2 = 0)
    /\ [][/\ op'.name = "callFunction"
               => /\ buffer' = buffer \o Appended
                  /\ IsFrame(Appended,
                             <<op'.args[1], op'.args[2]>> \o ParamBytes(op'.args[4]),
                             TX_WAIT_RX, TX_WAIT_LONG_RX)
          /\ op'.name = "broadcastFunction"
               => /\ buffer' = buffer \o Appended
                  /\ IsFrame(Appended,
                             <<op'.args[1], op'.args[2], op'.args[3]>> \o op'.args[5],
                             DELAY, LONG_DELAY)
                  /\ commanded' = commanded
         ]_vars

(* A broadcast with two bytes of data has been written behind a request with  *)
(* a two byte argument that is in the ledger.                                 *)
C18_Witness ==
    /\ op.name = "broadcastFunction"
    /\ op.args[5] = <<1, 2>>
    /\ commanded = <<<<8, 65>>>>
    /\ Len(buffer) = 17
    /\ buffer[7] = 8410
    /\ buffer[8] = TX_WAIT_RX + 335
    /\ buffer[16] = 8410
    /\ buffer[17] = DELAY + 300

-----------------------------------------------------------------------------
(* Properties of the server ID response.                                      *)

(* A processResponse call with one function 17 frame for the request at the   *)
(* front of the ledger, and the frame's length byte.                          *)
ServerIDHandled ==
    /\ OneFrame(op')
    /\ FrameOf(op').func = 17
    /\ commanded # <<>>
    /\ Head(commanded) = <<FrameOf(op').address, 17>>
LengthByte == FrameOf(op').payload[1]

(* C19: handling a function 17 response with a length byte below 12 fails     *)
(* with a runtime error, calls no hook and leaves the cached responses as     *)
(* they are. With a length byte len of 12 or more the firmware name is the    *)
(* len - 12 bytes behind the twelve bytes of the fields, and the CRC the two   *)
(* bytes behind the name: a frame that holds just these is handled to its end *)
(* and its hook, when it is called, gets these bytes as the name, a frame     *)
(* that holds more fails the CRC check len + 3 bytes behind the header, a     *)
(* frame that holds less runs out of the buffer.                              *)
C19_ServerIDLength ==
    [][ServerIDHandled =>
         IF LengthByte < 12
         THEN /\ thrown'.kind = "runtime_error"
              /\ thrown'.what = "invalid ILC function 17 response length"
              /\ HooksIn(calls') = <<>>
              /\ cachedResponse' = cachedResponse
         ELSE IF Len(FrameOf(op').payload) = LengthByte + 1
         THEN /\ thrown'.kind = "none"
              /\ index' = Len(buffer')
              /\ Len(HooksIn(calls')) <= 1
              /\ HooksIn(calls') # <<>>
                   => /\ HooksIn(calls')[1].name = "processServerID"
                      /\ HooksIn(calls')[1].args[9]
                           = SubSeq(FrameOf(op').payload, 14, LengthByte + 1)
         ELSE IF Len(FrameOf(op').payload) > LengthByte + 1
         THEN /\ thrown'.kind = "CRCError"
              /\ index' = 2 + LengthByte + 3
              /\ HooksIn(calls') = <<>>
         ELSE /\ thrown'.kind = "EndOfBuffer"
              /\ HooksIn(calls') = <<>>
      ]_vars

(* A response with a firmware name of two bytes has been handled to the end   *)
(* of the buffer: the hook got the name.                                      *)
C19_Witness ==
    /\ OneFrame(op)
    /\ FrameOf(op).payload = <<14>> \o ServerIDFixed \o <<67, 68>>
    /\ thrown.kind = "none"
    /\ Len(HooksIn(calls)) = 1
    /\ HooksIn(calls)[1].args[9] = <<67, 68>>
    /\ index = Len(buffer)

-----------------------------------------------------------------------------
(* Properties of the forced trigger.                                          *)

(* The hook of a function, and a processResponse call with one CRC-valid      *)
(* frame of function 17, 18 or 65 for the request at the front of the ledger. *)
HookOf(func) ==
    IF func = 17 THEN "processServerID"
    ELSE IF func = 18 THEN "processServerStatus" ELSE "processChangeILCMode"

ValidHandled ==
    /\ OneFrame(op')
    /\ FrameOf(op').func \in {17, 18, 65}
    /\ FrameOf(op').crcOk
    /\ ~ShortServerID(FrameOf(op'))
    /\ commanded # <<>>
    /\ Head(commanded) = <<FrameOf(op').address, FrameOf(op').func>>

(* C20: while _alwaysTrigger is set, handling a CRC-valid response of         *)
(* function 17, 18 or 65 calls the function's hook, once, whatever the cached *)
(* response is, and the cached response for the unit and the function is the  *)
(* payload of the response afterwards.                                        *)
C20_AlwaysTrigger ==
    [][(alwaysTrigger /\ ValidHandled) =>
         /\ Len(HooksIn(calls')) = 1
         /\ HooksIn(calls')[1].name = HookOf(FrameOf(op').func)
         /\ Cached(cachedResponse', FrameOf(op').address, FrameOf(op').func)
              = FrameOf(op').payload
      ]_vars

-----------------------------------------------------------------------------
(* Properties of the reads.                                                   *)

(* The words a read of the payload or next() needs: -1 for any other          *)
(* operation.                                                                 *)
WordsNeeded(o) ==
    IF o.name = "read" THEN SizeOf(o.args[1])
    ELSE IF o.name = "readU48" THEN 6
    ELSE IF o.name \in {"readString", "readBuffer"} THEN o.args[1]
    ELSE IF o.name = "readTimestamp" THEN 8
    ELSE IF o.name = "checkCRC" THEN 2
    ELSE IF o.name = "next" THEN 1
    ELSE -1

(* C21: a read of the payload (read<T>, readU48, readString, readTimestamp,   *)
(* readBuffer, checkCRC) or next() that needs more words than remain behind   *)
(* the cursor fails with EndOfBuffer, and no such operation moves the cursor  *)
(* beyond the end of the buffer.                                              *)
C21_EndOfBuffer ==
    [][WordsNeeded(op') >= 0 =>
         /\ buffer' = buffer
         /\ index' <= Len(buffer)
         /\ Len(buffer) - index < WordsNeeded(op') => thrown'.kind = "EndOfBuffer"
      ]_vars

(* readTimestamp has run out of a buffer of seven words: the cursor is at the *)
(* end.                                                                       *)
C21_Witness ==
    /\ op.name = "readTimestamp"
    /\ thrown.kind = "EndOfBuffer"
    /\ Len(buffer) = 7
    /\ index = 7

-----------------------------------------------------------------------------
(* Properties of clear and reset.                                             *)

(* The cursor, the CRC and the recording are as after construction.           *)
Rewound ==
    /\ index' = 0
    /\ crc' = 65535
    /\ recordChanges' = FALSE
    /\ records' = <<>>

(* C22: clear(true) empties the buffer, sets the cursor to 0 and the CRC to    *)
(* its initial value, switches recording off and empties what was recorded,   *)
(* and leaves the ledger as it is; clear(false) does the same and empties the *)
(* ledger.                                                                    *)
C22_Clear ==
    [][op'.name = "clear" =>
         /\ buffer' = <<>>
         /\ Rewound
         /\ commanded' = IF op'.args[1] THEN commanded ELSE <<>>
      ]_vars

(* clear(true) has left two requests in the ledger.                           *)
C22_Witness ==
    /\ op.name = "clear"
    /\ op.args = <<TRUE>>
    /\ commanded = <<<<8, 18>>, <<8, 65>>>>
    /\ buffer = <<>>

(* C23: reset() sets the cursor to 0 and the CRC to 0xFFFF, switches          *)
(* recording off and empties what was recorded, and leaves the buffer, the    *)
(* ledger, the registered handlers, the cached responses and the last modes   *)
(* unchanged.                                                                 *)
C23_Reset ==
    [][op'.name = "reset" =>
         /\ Rewound
         /\ UNCHANGED <<buffer, commanded, actions, errorActions, cachedResponse, lastMode>>
      ]_vars

(* reset() has left a response in the buffer, a request in the ledger, and a  *)
(* cached response and a last mode of the unit.                               *)
C23_Witness ==
    /\ op.name = "reset"
    /\ buffer = FrameWords(Frame(8, 17, <<11>>, TRUE, 0))
    /\ commanded = <<<<8, 65>>>>
    /\ Cached(cachedResponse, 8, 18) # <<>>
    /\ 8 \in DOMAIN lastMode
    /\ index = 0

-----------------------------------------------------------------------------
(* Properties of setBuffer.                                                   *)

(* C24: setBuffer(words, n) makes the buffer the first n of the given words,   *)
(* whatever it held before, and sets the cursor to 0 and the CRC to 0xFFFF.   *)
C24_SetBuffer ==
    [][op'.name = "setBuffer" =>
         /\ Len(buffer') = op'.args[2]
         /\ \A i \in 1..op'.args[2] : buffer'[i] = op'.args[1][i]
         /\ index' = 0
         /\ crc' = 65535
      ]_vars

(* Five of seven words have been set.                                         *)
C24_Witness ==
    /\ op.name = "setBuffer"
    /\ op.args = <<ByteWords(7), 5>>
    /\ buffer = ByteWords(5)
    /\ index = 0

-----------------------------------------------------------------------------
(* Properties of preProcess and postProcess.                                  *)

(* How often a call is in a trace.                                            *)
Count(trace, name) == Len(SelectSeq(trace, LAMBDA e : e.name = name))

(* C25: a processResponse call calls preProcess once, before anything else    *)
(* and before it replaces the buffer (the buffer and the cursor are untouched *)
(* when preProcess throws); it calls postProcess once, last, with all of the   *)
(* response dispatched, when it raises no error, and not at all when it        *)
(* raises one.                                                                *)
C25_PrePostProcess ==
    [][op'.name = "processResponse" =>
         /\ Count(calls', "preProcess") = 1
         /\ calls'[1].name = "preProcess"
         /\ (Len(calls') = 1 /\ thrown'.what = "hook")
              => (buffer' = buffer /\ index' = index)
         /\ Count(calls', "postProcess") = IF thrown'.kind = "none" THEN 1 ELSE 0
         /\ thrown'.kind = "none"
              => (calls'[Len(calls')].name = "postProcess" /\ index' = Len(buffer'))
      ]_vars

(* A response of two frames has been processed: two hooks between preProcess  *)
(* and postProcess.                                                           *)
C25_Witness ==
    /\ op.name = "processResponse"
    /\ Len(op.args) = 2
    /\ thrown.kind = "none"
    /\ Len(HooksIn(calls)) = 2
    /\ calls[1].name = "preProcess"
    /\ calls[Len(calls)].name = "postProcess"

-----------------------------------------------------------------------------
(* Properties of the mezzanine pressure response.                             *)

(* A processResponse call with one CRC-valid function 119 frame for the       *)
(* request at the front of the ledger, and the n-th float of its payload.     *)
PressureHandled ==
    /\ OneFrame(op')
    /\ FrameOf(op').func = 119
    /\ FrameOf(op').crcOk
    /\ 119 \in DOMAIN actions
    /\ commanded # <<>>
    /\ Head(commanded) = <<FrameOf(op').address, 119>>
WireFloat(n) == SubSeq(FrameOf(op').payload, 4 * n - 3, 4 * n)

-----------------------------------------------------------------------------
(* Properties of concurrent callers.                                          *)

(* Reading the whole buffer back frame by frame from the start, and the       *)
(* address and function bytes at the start of each frame of the buffer, a     *)
(* frame ending with a wait for Rx word.                                      *)
RECURSIVE ReadBack(_)
ReadBack(m) ==
    IF Failed(m) \/ endOfBuffer(m) THEN m ELSE ReadBack(readFrame(m, 0, 0))

RECURSIVE HeadersFrom(_, _, _)
HeadersFrom(words, i, atStart) ==
    IF i > Len(words) THEN <<>>
    ELSE IF ClassOf(words[i]) \in {TX_WAIT_RX, TX_WAIT_LONG_RX}
         THEN HeadersFrom(words, i + 1, TRUE)
    ELSE IF atStart /\ i < Len(words)
         THEN <<BytesOf(SubSeq(words, i, i + 1))>> \o HeadersFrom(words, i + 2, FALSE)
    ELSE HeadersFrom(words, i + 1, FALSE)

(* No call is under way, and a frame of the buffer fails checkCRC when it is  *)
(* read back, or the ledger is not the sequence of the frames' requests.      *)
Scrambled ==
    /\ callers = EmptyMap
    /\ \/ ReadBack(reset(Self("none"))).thrown.kind = "CRCError"
       \/ commanded # HeadersFrom(buffer, 1, TRUE)

(* C27: when the calls of callFunction on one instance did not overlap, the   *)
(* frames in the buffer are read back without an error and the ledger has the *)
(* requests of the frames in their order; when two calls are interleaved word *)
(* by word, a state is reached in which a frame fails checkCRC on read-back   *)
(* or the ledger differs from the order of the frames (C27_Witness).          *)
C27_SerializedIntact ==
    (callers = EmptyMap /\ ~hist.overlapped)
        => /\ ReadBack(reset(Self("none"))).thrown.kind = "none"
           /\ commanded = HeadersFrom(buffer, 1, TRUE)

(* Two calls that overlapped have returned: the first frame fails checkCRC    *)
(* on read-back, and the two requests are in the ledger.                      *)
C27_Witness ==
    /\ hist.overlapped
    /\ Scrambled
    /\ Len(commanded) = 2
    /\ ReadBack(reset(Self("none"))).thrown.kind = "CRCError"

-----------------------------------------------------------------------------
(* The front of the ledger is the front of waiting, and the ledger is empty   *)
(* when nothing waits.                                                        *)
FrontIs(waiting) ==
    IF waiting = <<>> THEN commanded = <<>>
    ELSE commanded # <<>> /\ Head(commanded) = Head(waiting)

(* C28 as stated: between operations the front of the ledger is the oldest    *)
(* unicast request issued since the last clear() whose response (a frame with *)
(* the request's address and its function or the error code of its function)  *)
(* has not been received, whatever callFunction and processResponse calls     *)
(* came before, those that ended in an error included.                        *)
C28_FrontIsOldestUnanswered == FrontIs(hist.unanswered)

(* C28: between operations the front of the ledger is the oldest unicast      *)
(* request issued since the last clear() that no response header has been     *)
(* compared with: every header the dispatcher takes to a non-empty ledger     *)
(* removes the front entry, whether or not it is the response of that entry.  *)
C28_FrontIsOldestUnchecked == FrontIs(hist.sinceClear)

(* Requests to 8 then 9 and the response of 9: UnmatchedFunction is raised,   *)
(* the request to 8 is gone and the front is the request to 9, whose response *)
(* has been received.                                                         *)
C28_Witness ==
    /\ op.name = "processResponse"
    /\ thrown.kind = "UnmatchedFunction"
    /\ hist.unanswered = <<<<8, 107>>>>
    /\ hist.sinceClear = <<<<9, 107>>>>
    /\ commanded = <<<<9, 107>>>>

-----------------------------------------------------------------------------
(* C29: every non-empty snapshot cached for an address and a function is the  *)
(* payload (the bytes between the function code and the CRC) of the last      *)
(* CRC-valid response processed for that address and function, and nothing    *)
(* else, also after handlers that failed with CRCError, EndOfBuffer or the    *)
(* function 17 length error.                                                  *)
C29_SnapshotIsPayload ==
    \A a \in DOMAIN cachedResponse : \A f \in DOMAIN cachedResponse[a] :
        cachedResponse[a][f] # <<>>
            => /\ <<a, f>> \in DOMAIN hist.valid
               /\ cachedResponse[a][f] = hist.valid[<<a, f>>]

-----------------------------------------------------------------------------
(* C30: the two CRC bytes of a frame are never appended to the recorded       *)
(* bytes, whether recording is on or off: checkCRC and writeCRC leave the     *)
(* recorded bytes as they were, and callFunction appends at most the address, *)
(* the function code and the parameters of its frame.                         *)
C30_CRCNotRecorded ==
    [][/\ op'.name \in {"checkCRC", "writeCRC"} => records' = records
       /\ op'.name = "callFunction"
             => records' \in {records,
                              records \o <<op'.args[1], op'.args[2]>> \o ParamBytes(op'.args[4])}
      ]_vars

-----------------------------------------------------------------------------
(* C31: right after writeCRC, after a checkCRC that does not throw and after  *)
(* a readEndOfFrame that found the end of the frame, the CRC register is      *)
(* 0xFFFF, so that the CRC bytes of a frame are not part of the CRC of the    *)
(* frame behind it.                                                           *)
C31_RegisterReset ==
    [][(/\ op'.name \in {"writeCRC", "checkCRC", "readEndOfFrame"}
        /\ thrown'.kind = "none")
          => crc' = CRCInit]_vars

(* checkCRC has accepted the CRC of a request whose bytes had left the        *)
(* register at another value.                                                 *)
C31_Witness ==
    /\ op.name = "checkCRC"
    /\ thrown.kind = "none"
    /\ index = 4
    /\ crc = CRCInit

(* C32: writeEndOfFrame, writeWaitForRx, writeDelay, writeRxEndFrame,         *)
(* readWaitForRx, readDelay, peek and next leave the CRC register and the     *)
(* recorded bytes as they were; read<T> and write<T> add their bytes to the   *)
(* CRC.                                                                       *)
C32_FramingLeavesCRC ==
    [][/\ op'.name \in {"writeEndOfFrame", "writeWaitForRx", "writeDelay", "writeRxEndFrame",
                        "readWaitForRx", "readDelay", "peek", "next"}
             => crc' = crc /\ records' = records
       /\ (op'.name = "write" /\ op'.args[1] = "uint8")
             => crc' = CRCAdd(crc, op'.args[2])
       /\ (op'.name = "read" /\ thrown'.kind = "none" /\ op'.args[1] = "uint8")
             => crc' = CRCAdd(crc, ret'[1])
      ]_vars

(* A delay has been written behind a byte, with recording on and a CRC        *)
(* register that is not 0xFFFF.                                               *)
C32_Witness ==
    /\ op.name = "writeDelay"
    /\ Len(buffer) = 2
    /\ recordChanges
    /\ records = <<11, 5>>
    /\ crc = CRCAdd(CRCInit, 5)

-----------------------------------------------------------------------------
(* C33: after checkRecording(cached), with either result, recording is off    *)
(* and there are no recorded bytes; the result is true exactly when cached    *)
(* was equal to the recorded bytes at the call, and then cached is as it was; *)
(* otherwise cached holds the bytes that were recorded.                       *)
C33_CheckRecording ==
    [][op'.name = "checkRecording"
          => /\ ~recordChanges'
             /\ records' = <<>>
             /\ ret'[1] = (op'.args[1] = records)
             /\ ret'[1] => ret'[2] = op'.args[1]
             /\ ~ret'[1] => ret'[2] = records]_vars

(* checkRecording has found other bytes than the cached ones, left behind by  *)
(* a server ID response, and has handed them over.                            *)
C33_Witness ==
    /\ op.name = "checkRecording"
    /\ op.args[1] = <<0, 3>>
    /\ ret = <<FALSE, <<11>>>>
    /\ records = <<>>

-----------------------------------------------------------------------------
(* A call of processResponse is under way.                                    *)
Dispatching == callers # EmptyMap

(* C34: processResponse terminates. While a call is under way, every step     *)
(* either ends it (with an exception, or because the cursor is at the end of  *)
(* the buffer) or is a turn of the loop that moves the cursor on by at least  *)
(* two words, so that after n turns 2 * n words at least lie behind the       *)
(* cursor; and a call under way comes to its end.                             *)
C34_Terminates ==
    /\ [][Dispatching
            => \/ /\ ~Dispatching'
                  /\ thrown'.kind # "none" \/ index >= Len(buffer)
               \/ /\ Dispatching'
                  /\ callers'[1].turns = callers[1].turns + 1
                  /\ index' >= index + 2
                  /\ 2 * callers'[1].turns <= index'
                  /\ index' <= Len(buffer')]_vars
    /\ Dispatching ~> ~Dispatching

(* Two frames have been dispatched in two turns and the call has returned.    *)
C34_Witness ==
    /\ ~Dispatching
    /\ op.name = "processResponse"
    /\ Len(op.args) = 2
    /\ thrown.kind = "none"
    /\ index = Len(buffer)
    /\ \E i \in DOMAIN calls : calls[i].name = "postProcess"


(* C35: the cursor stays between 0 and the length of the buffer, only reset,  *)
(* clear and setBuffer (also at the start of processResponse) move it back,   *)
(* and readEndOfFrame, readWaitForRx, readDelay, peek and endOfFrame called   *)
(* with the cursor at the end of the buffer fail instead of reading a word.   *)
C35_CursorInBounds ==
    [][/\ index' <= Len(buffer')
       /\ op'.name \notin {"reset", "clear", "setBuffer", "processResponse"}
            => index' >= index
       /\ (/\ op'.name \in {"readEndOfFrame", "readWaitForRx", "readDelay",
                            "peek", "endOfFrame"}
           /\ index >= Len(buffer))
            => thrown'.kind # "none"]_vars

(* SpecReadData: getReadData with lengths up to 3 on buffers of 0, 1 and 3    *)
(* instruction bytes, with the cursor anywhere in them.                       *)
ReadDataLengths == {0, 1, 2, 3}

ReadDataNext ==
    \/ \E n \in {0, 1, 3} : SetBuffer(ByteWords(n), n)
    \/ Len(buffer) <= 1 /\ Write("uint8", 5)
    \/ Read("uint8")
    \/ SkipWord
    \/ \E length \in ReadDataLengths : GetReadData(length)
    \/ Reset

SpecReadData == InitQuiet /\ [][ReadDataNext]_vars

(* C36: getReadData(length) called with at least length words left in the     *)
(* buffer returns normally, and returns exactly length bytes.                 *)
C36_ReadDataLength ==
    [][(/\ op'.name = "getReadData"
        /\ op'.args[1] <= Len(buffer) - index)
          => /\ thrown'.kind = "none"
             /\ Len(ret'[1]) = op'.args[1]]_vars

(* C37: the duration readWaitForRx returns for the word that writeWaitForRx(d) *)
(* has appended, and readDelay for the word of writeDelay(d), is at least d.  *)
C37_NeverShorter ==
    [][/\ (op'.name = "readWaitForRx" /\ thrown'.kind = "none" /\ index < Len(buffer))
            => \A d \in Durations :
                  buffer[index + 1] = DurationWord(d, TX_WAIT_RX, TX_WAIT_LONG_RX)
                     => ret'[1] >= d
       /\ (op'.name = "readDelay" /\ thrown'.kind = "none" /\ index < Len(buffer))
            => \A d \in Durations :
                  buffer[index + 1] = DurationWord(d, DELAY, LONG_DELAY)
                     => ret'[1] >= d
      ]_vars

(* SpecConsume: the iterations of processResponse one by one, as in           *)
(* SpecDispatch, and checkCommandedEmpty between the calls.                   *)
ConsumeNext ==
    \/ DispatchNext
    \/ callers = EmptyMap /\ CheckCommandedEmpty

SpecConsume == InitQuiet /\ [][ConsumeNext]_vars

(* An iteration of the dispatch loop that reaches checkCommanded: a call is   *)
(* under way and two words are left for the address and the function.         *)
ChecksCommanded ==
    /\ callers # EmptyMap
    /\ op'.name = "processResponse"
    /\ index + 2 <= Len(buffer)

(* C38: checkCommanded on a ledger that is not empty removes the front entry  *)
(* whether or not it matches the header of the response, so that after an     *)
(* UnmatchedFunction the ledger is one entry shorter, and checkCommandedEmpty *)
(* leaves the ledger empty whether or not it throws.                          *)
C38_ChecksConsume ==
    [][/\ (ChecksCommanded /\ commanded # <<>>) => commanded' = Tail(commanded)
       /\ (ChecksCommanded /\ commanded # <<>> /\ thrown'.kind = "UnmatchedFunction")
            => /\ Len(commanded') = Len(commanded) - 1
               /\ Head(commanded) = <<thrown'.c, thrown'.d>>
               /\ Head(commanded) # <<thrown'.a, thrown'.b>>
       /\ op'.name = "checkCommandedEmpty"
            => /\ commanded' = <<>>
               /\ thrown'.kind = "none" <=> commanded = <<>>]_vars

(* The response of unit 8 was compared with the request to unit 9: the call   *)
(* has ended with UnmatchedFunction and only the second of the two requests   *)
(* is left.                                                                   *)
C38_Witness ==
    /\ op.name = "processResponse"
    /\ thrown.kind = "UnmatchedFunction"
    /\ <<thrown.a, thrown.b, thrown.c, thrown.d>> = <<8, 107, 9, 107>>
    /\ commanded = <<<<8, 18>>>>

(* checkCommandedEmpty has thrown for one unanswered request and has left the *)
(* ledger empty.                                                              *)
ConsumeEmptied ==
    /\ op.name = "checkCommandedEmpty"
    /\ thrown.kind = "runtime_error"
    /\ Listed(thrown) = <<<<8, 18>>>>
    /\ commanded = <<>>

(* SpecStale: the operations of SpecFraming, with clear and checkRecording,   *)
(* around a checkCRC that fails.                                              *)
StaleNext ==
    \/ FramingNext
    \/ Clear(FALSE)
    \/ \E cached \in {<<>>, <<11>>} : CheckRecording(cached)

SpecStale == InitQuiet /\ [][StaleNext]_vars

(* The byte an instruction word of the buffer carries.                        *)
ByteAt(i) == U8(buffer[i] \div 2)

(* A checkCRC that throws CRCError has taken the two CRC words, has turned    *)
(* recording off without touching the recorded bytes, and has left in the     *)
(* register what the two bytes it read have made of it.                       *)
CRCErrorLeaves ==
    (op'.name = "checkCRC" /\ thrown'.kind = "CRCError")
       => /\ index' = index + 2
          /\ ~recordChanges'
          /\ records' = records
          /\ crc' = CRCAdd(CRCAdd(crc, ByteAt(index + 1)), ByteAt(index + 2))

(* The operation after a checkCRC that threw CRCError with words left behind  *)
(* the CRC sets the register back to 0xFFFF only if it is one of resets, and  *)
(* empties the recorded bytes only if it is one of empties; processResponse   *)
(* goes through setBuffer and through checkRecording.                         *)
AfterCRCError(resets, empties) ==
    (op.name = "checkCRC" /\ thrown.kind = "CRCError" /\ index < Len(buffer))
       => /\ (crc # CRCInit /\ crc' = CRCInit) => op'.name \in resets
          /\ (records # <<>> /\ records' = <<>>) => op'.name \in empties

(* C39, the claim as written: after a CRCError the register returns to 0xFFFF *)
(* only through reset, clear or setBuffer, and the recorded bytes are emptied *)
(* only through reset, clear or checkRecording.                               *)
C39_OnlyResets ==
    [][/\ CRCErrorLeaves
       /\ AfterCRCError({"reset", "clear", "setBuffer", "processResponse"},
                        {"reset", "clear", "checkRecording", "processResponse"})]_vars

(* C39: when checkCRC throws CRCError the cursor is behind the two CRC words, *)
(* recording is off, the recorded bytes are kept and the register is not      *)
(* reset; the register is set back to 0xFFFF by reset, clear, setBuffer,      *)
(* writeCRC, a checkCRC that does not throw and readEndOfFrame, the recorded  *)
(* bytes are emptied by reset, clear and checkRecording, and every other      *)
(* operation leaves the register alone or adds the byte it reads or writes.   *)
C39_StaleUntilReset ==
    [][/\ CRCErrorLeaves
       /\ AfterCRCError({"reset", "clear", "setBuffer", "processResponse",
                         "writeCRC", "checkCRC", "readEndOfFrame"},
                        {"reset", "clear", "checkRecording", "processResponse"})
       /\ op'.name \notin {"reset", "clear", "setBuffer", "processResponse",
                           "writeCRC", "checkCRC", "readEndOfFrame"}
            => \/ crc' = crc
               \/ /\ op'.name \in {"read", "write"}
                  /\ \E data \in 0..255 : crc' = CRCAdd(crc, data)
       /\ op'.name \notin {"reset", "clear", "checkRecording", "processResponse"}
            => \/ records' = records
               \/ /\ op'.name \in {"read", "write"}
                  /\ \E data \in 0..255 : records' = Append(records, data)]_vars

(* checkCRC has thrown CRCError with recording on before it: the recorded     *)
(* bytes are kept, recording is off and the register is not 0xFFFF.           *)
C39_Witness ==
    /\ op.name = "checkCRC"
    /\ thrown.kind = "CRCError"
    /\ records = <<11, 8>>
    /\ ~recordChanges
    /\ crc # CRCInit
    /\ index = 3

(* SpecEnter: setBuffer and processResponse, taken iteration by iteration,    *)
(* of responses whose handler fails while it records, succeeds, or finds a    *)
(* bad CRC.                                                                   *)
EnterFrames == {Frame(8, 17, <<11>>, TRUE, 0), ChangeILCMode(TRUE), ChangeILCMode(FALSE)}

EnterNext ==
    \/ \E f \in {17, 65} : callers = EmptyMap /\ PushCommanded(8, f)
    \/ \E f \in EnterFrames, h \in {"none", "preProcess"} :
          EnterProcessResponse(1, Response(<<f>>), h)
    \/ TurnProcessResponse(1, "none")
    \/ LeaveProcessResponse(1)
    \/ \E f \in EnterFrames :
          callers = EmptyMap /\ SetBuffer(FrameWords(f), Len(FrameWords(f)))
    \/ callers = EmptyMap /\ Len(records) <= 1 /\ Read("uint8")
    \/ callers = EmptyMap /\ Reset

SpecEnter == InitQuiet /\ [][EnterNext]_vars

(* C40: setBuffer, and the start of a processResponse call (preProcess and    *)
(* setBuffer), leave the ledger, the recording flag, the recorded bytes, the  *)
(* cached responses and the last modes as they were.                          *)
C40_SetBufferKeeps ==
    [][(\/ op'.name = "setBuffer"
        \/ op'.name = "processResponse" /\ callers = EmptyMap)
          => /\ commanded' = commanded
             /\ recordChanges' = recordChanges
             /\ records' = records
             /\ cachedResponse' = cachedResponse
             /\ lastMode' = lastMode]_vars

(* A response has been set for dispatching while the byte that a handler      *)
(* recorded before it failed is among the recorded bytes, with a mode cached  *)
(* by an earlier response and a request in the ledger.                        *)
C40_Witness ==
    /\ op.name = "processResponse"
    /\ callers # EmptyMap
    /\ callers[1].turns = 0
    /\ index = 0
    /\ recordChanges
    /\ records = <<11>>
    /\ commanded = <<<<8, 65>>>>
    /\ 8 \in DOMAIN lastMode
=============================================================================
